---- MODULE Spec2Model ----
(***************************************************************************)
(* A model of libsdlog: the message format model (src/src/core/model.c),  *)
(* the record encoder (src/src/core/encoder.c), the output stream helpers *)
(* (src/src/io/base.c) and the log writer (src/src/core/writer.c).        *)
(*                                                                         *)
(* C strings are sequences of one-character strings, bytes are integers   *)
(* in 0..255, and a pointer to a caller-owned message format is the name  *)
(* of the object in Heap.                                                  *)
(***************************************************************************)
EXTENDS Integers, Sequences, FiniteSets, TLC

(***************************************************************************)
(* Bounds of the model.                                                    *)
(***************************************************************************)
\* Number of calls made on the writer in one behaviour.
MaxCalls == 3
\* Number of calls on the writer during which a collaborator fails.
MaxFaults == 1
\* The most bytes the stream accepts in one write call.
MaxChunk == 64
\* Number of columns of the formats handed to the encoder.
MaxEncColumns == 2
\* The number of calls that build one message format after its init.
MaxFormatCalls == 3

(***************************************************************************)
(* Error codes (sdlog_error_t).                                            *)
(***************************************************************************)
SDLOG_SUCCESS == 0
SDLOG_FAILURE == 1
SDLOG_ENOMEM == 2
SDLOG_EINVAL == 3
SDLOG_ELIMIT == 4
SDLOG_EREAD == 5
SDLOG_EWRITE == 6
SDLOG_EIO == 7
SDLOG_UNIMPLEMENTED == 8
SDLOG_EOF == 9

\* ID of FMT records in the logs.
SDLOG_ID_FMT == 128
SDLOG_MAX_MESSAGE_LENGTH == 256
SDLOG_MAX_MESSAGE_TYPE_LENGTH == 4
UINT8_MAX == 255

\* The null pointer.
NULL == "NULL"

(***************************************************************************)
(* Characters.  Ord(c) is the code of character c in the execution        *)
(* character set (ASCII), for the characters ',' to 'Z' and 'a' to 'z'.*)
(***************************************************************************)
Chars ==
    << ",", "-", ".", "/", "0", "1", "2", "3", "4", "5", "6", "7", "8", "9", ":", ";",
       "<", "=", ">", "?", "@", "A", "B", "C", "D", "E", "F", "G", "H", "I", "J", "K",
       "L", "M", "N", "O", "P", "Q", "R", "S", "T", "U", "V", "W", "X", "Y", "Z" >>

LowerCase ==
    << "a", "b", "c", "d", "e", "f", "g", "h", "i", "j", "k", "l", "m", "n", "o", "p",
       "q", "r", "s", "t", "u", "v", "w", "x", "y", "z" >>

CharCodes ==
    [c \in {Chars[i] : i \in DOMAIN Chars} \cup {LowerCase[i] : i \in DOMAIN LowerCase} |->
        IF \E i \in DOMAIN LowerCase : LowerCase[i] = c
        THEN 96 + (CHOOSE i \in DOMAIN LowerCase : LowerCase[i] = c)
        ELSE 43 + (CHOOSE i \in DOMAIN Chars : Chars[i] = c)]

Ord(c) == CharCodes[c]

\* The bytes of a C string, without its terminator.
Bytes(s) == [i \in 1..Len(s) |-> Ord(s[i])]

Min(a, b) == IF a < b THEN a ELSE b

\* memset(p, 0, n)
Zeros(n) == [i \in 1..n |-> 0]

(***************************************************************************)
(* The message format model (model.c).  A message format is a record      *)
(* [id, type, columns]; columns is the sequence of the num_columns column *)
(* formats [type, unit, name] that were added to it, in order.  A format  *)
(* that sdlog_message_format_init built also carries type_field, the five *)
(* bytes of its type array, and num_alloc_columns.                        *)
(***************************************************************************)
get_size_of_column_type(type) ==
    CASE type \in {"b", "B", "M"} -> 1
      [] type \in {"c", "C", "h", "H"} -> 2
      [] type \in {"e", "E", "f", "i", "I", "L", "n"} -> 4
      [] type \in {"d", "q", "Q"} -> 8
      [] type = "N" -> 16
      [] type \in {"a", "Z"} -> 64
      [] OTHER -> 0

sdlog_message_column_format_get_size(column) ==
    get_size_of_column_type(column.type)

sdlog_message_format_get_column_count(format) == Len(format.columns)

RECURSIVE SumRange(_, _, _)
\* The additions result += size of the loop of sdlog_message_format_get_size
\* for columns lo..hi, in a uint16_t; the additions are grouped in halves
\* (addition modulo 2^16 is associative), which keeps the evaluation shallow
\* for formats of hundreds of columns.
SumRange(columns, lo, hi) ==
    IF lo > hi THEN 0
    ELSE IF lo = hi THEN sdlog_message_column_format_get_size(columns[lo])
    ELSE (SumRange(columns, lo, (lo + hi) \div 2)
          + SumRange(columns, (lo + hi) \div 2 + 1, hi)) % 65536

\* The loop of sdlog_message_format_get_size over columns 1..n.
SumSizes(columns, n) == SumRange(columns, 1, n)

\* Variant: the size accumulated in a uint8_t.
sdlog_message_format_get_size_Uint8(format) ==
    SumSizes(format.columns, sdlog_message_format_get_column_count(format)) % 256

sdlog_message_format_get_size(format) ==
    SumSizes(format.columns, sdlog_message_format_get_column_count(format))

\* result[i] = format->columns[i].type for the first n columns.
FormatChars(columns, n) == [i \in 1..n |-> columns[i].type]

\* The string of the column type codes (without its terminator).
sdlog_message_format_get_format_string(format) ==
    FormatChars(format.columns, sdlog_message_format_get_column_count(format))

RECURSIVE JoinRange(_, _, _, _)
\* What the second loop of sdlog_message_format_get_column_names writes
\* for columns lo..hi: each name, with sep before every one but the first
\* (concatenation grouped in halves).
JoinRange(columns, sep, lo, hi) ==
    IF lo > hi THEN <<>>
    ELSE IF lo = hi THEN columns[lo].name
    ELSE JoinRange(columns, sep, lo, (lo + hi) \div 2) \o sep
            \o JoinRange(columns, sep, (lo + hi) \div 2 + 1, hi)

JoinNames(columns, sep, n) == JoinRange(columns, sep, 1, n)

\* The column names joined by sep (without the terminator).
sdlog_message_format_get_column_names(format, sep) ==
    JoinNames(format.columns, sep, sdlog_message_format_get_column_count(format))

\* The allocation request of sdlog_message_format_get_format_string.
format_string_bytes_needed(format) ==
    sdlog_message_format_get_column_count(format) + 1

RECURSIVE NamesLengthRange(_, _, _)
NamesLengthRange(columns, lo, hi) ==
    IF lo > hi THEN 0
    ELSE IF lo = hi THEN Len(columns[lo].name)
    ELSE NamesLengthRange(columns, lo, (lo + hi) \div 2)
            + NamesLengthRange(columns, (lo + hi) \div 2 + 1, hi)

\* The first loop of sdlog_message_format_get_column_names: the sum of
\* strlen(name) over the first n columns (grouped in halves).
NamesLength(columns, n) == NamesLengthRange(columns, 1, n)

\* bytes_needed of sdlog_message_format_get_column_names.  It is a size_t:
\* a negative number v here stands for the wrapped value 2^64 + v.
column_names_bytes_needed(format, sep) ==
    NamesLength(format.columns, sdlog_message_format_get_column_count(format))
        + Len(sep) * (sdlog_message_format_get_column_count(format) - 1) + 1

\* What a call of sdlog_message_format_get_column_names can do, malloc
\* answering as in heap ("ok", or "fail" for NULL): the size requested, the
\* string returned (NULL, or the string without its terminator), and the
\* number of bytes written to the block, terminator included.  A request
\* of the wrapped size always fails; malloc(0) may return NULL or a block
\* of no bytes, into which the terminator is then written.
get_column_names_call(format, sep, heap) ==
    LET bytes_needed == column_names_bytes_needed(format, sep)
        result == sdlog_message_format_get_column_names(format, sep)
    IN  IF bytes_needed < 0 \/ heap = "fail"
        THEN [requested |-> bytes_needed, result |-> NULL, stored |-> 0]
        ELSE [requested |-> bytes_needed, result |-> result,
              stored |-> Len(result) + 1]

\* Variant: the slot after the last column is handed out as well.
sdlog_message_format_get_column_OffByOne(format, index) ==
    IF index <= sdlog_message_format_get_column_count(format)
    THEN [null |-> FALSE, slot |-> index]
    ELSE [null |-> TRUE]

\* index is a uint8_t.  The pointer returned: NULL, or the address of
\* slot index of format->columns (columns[index + 1] here).
sdlog_message_format_get_column(format, index) ==
    IF index < sdlog_message_format_get_column_count(format)
    THEN [null |-> FALSE, slot |-> index]
    ELSE [null |-> TRUE]

\* A message format object before sdlog_message_format_init: memory
\* that was never written.
Garbage ==
    [id |-> 170, type |-> <<"?">>, type_field |-> <<170, 170, 170, 170, 170>>,
     num_alloc_columns |-> 170, columns |-> <<>>]

\* A message format object after memset(format, 0, sizeof(...)).
ZeroFormat ==
    [id |-> 0, type |-> <<>>, type_field |-> Zeros(5), num_alloc_columns |-> 0,
     columns |-> <<>>]

\* Variant: type names of SDLOG_MAX_MESSAGE_TYPE_LENGTH characters are
\* rejected as well.
sdlog_message_format_init_RejectingFour(format, id, type, alloc) ==
    IF Len(type) >= SDLOG_MAX_MESSAGE_TYPE_LENGTH
    THEN [ret |-> SDLOG_EINVAL, format |-> format]
    ELSE IF ~alloc
    THEN [ret |-> SDLOG_ENOMEM, format |-> ZeroFormat]
    ELSE [ret |-> SDLOG_SUCCESS,
          format |->
             [id |-> id, type |-> type,
              type_field |->
                 [i \in 1..(SDLOG_MAX_MESSAGE_TYPE_LENGTH + 1) |->
                     IF i <= Len(type) THEN Ord(type[i]) ELSE 0],
              num_alloc_columns |-> 4,
              columns |-> <<>>]]

\* alloc: whether malloc returns a block.
sdlog_message_format_init(format, id, type, alloc) ==
    IF Len(type) > SDLOG_MAX_MESSAGE_TYPE_LENGTH
    THEN [ret |-> SDLOG_EINVAL, format |-> format]
    ELSE IF ~alloc
    THEN [ret |-> SDLOG_ENOMEM, format |-> ZeroFormat]
    ELSE [ret |-> SDLOG_SUCCESS,
          format |->
             [id |-> id,
              type |-> SubSeq(type, 1, Min(Len(type), SDLOG_MAX_MESSAGE_TYPE_LENGTH)),
              type_field |->
                 [i \in 1..(SDLOG_MAX_MESSAGE_TYPE_LENGTH + 1) |->
                     IF i <= Len(type) /\ i <= SDLOG_MAX_MESSAGE_TYPE_LENGTH
                     THEN Ord(type[i]) ELSE 0],
              num_alloc_columns |-> 4,
              columns |-> <<>>]]

\* alloc: whether malloc returns a block.
sdlog_message_column_format_init(name, type, unit, alloc) ==
    IF ~alloc THEN [ret |-> SDLOG_ENOMEM]
    ELSE [ret |-> SDLOG_SUCCESS,
          column |-> [name |-> name, type |-> type, unit |-> unit]]

\* Variant: the capacity doubles every time.
new_size_Doubling(num_alloc_columns) == num_alloc_columns * 2

\* The capacity sdlog_message_format_add_column asks realloc for (a uint16_t).
new_size(num_alloc_columns) ==
    IF num_alloc_columns < 32 THEN num_alloc_columns * 2
    ELSE num_alloc_columns + 16

\* Variant: the type code is not checked.
sdlog_message_format_add_column_AnyType(format, name, type, unit, fail) ==
    IF sdlog_message_format_get_column_count(format) = UINT8_MAX
    THEN [ret |-> SDLOG_ELIMIT, format |-> format]
    ELSE LET full == Len(format.columns) = format.num_alloc_columns IN
         IF full /\ new_size(format.num_alloc_columns) > UINT8_MAX
         THEN [ret |-> SDLOG_ELIMIT, format |-> format]
         ELSE IF full /\ fail = "realloc"
         THEN [ret |-> SDLOG_ENOMEM, format |-> format]
         ELSE LET grown == IF full
                           THEN [format EXCEPT !.num_alloc_columns = new_size(@)]
                           ELSE format
                  c == sdlog_message_column_format_init(
                           name, type, unit, fail # "name")
              IN  IF c.ret # SDLOG_SUCCESS
                  THEN [ret |-> c.ret, format |-> grown]
                  ELSE [ret |-> SDLOG_SUCCESS,
                        format |-> [grown EXCEPT !.columns = Append(@, c.column)]]

\* fail: the allocation that fails: "none", "realloc" or "name".
sdlog_message_format_add_column(format, name, type, unit, fail) ==
    IF sdlog_message_format_get_column_count(format) = UINT8_MAX
    THEN [ret |-> SDLOG_ELIMIT, format |-> format]
    ELSE IF get_size_of_column_type(type) = 0
    THEN [ret |-> SDLOG_EINVAL, format |-> format]
    ELSE LET full == Len(format.columns) = format.num_alloc_columns IN
         IF full /\ new_size(format.num_alloc_columns) > UINT8_MAX
         THEN [ret |-> SDLOG_ELIMIT, format |-> format]
         ELSE IF full /\ fail = "realloc"
         THEN [ret |-> SDLOG_ENOMEM, format |-> format]
         ELSE LET grown == IF full
                           THEN [format EXCEPT !.num_alloc_columns = new_size(@)]
                           ELSE format
                  c == sdlog_message_column_format_init(
                           name, type, unit, fail # "name")
              IN  IF c.ret # SDLOG_SUCCESS
                  THEN [ret |-> c.ret, format |-> grown]
                  ELSE [ret |-> SDLOG_SUCCESS,
                        format |-> [grown EXCEPT !.columns = Append(@, c.column)]]

\* The position of the first ',' of names at or after pos; Len(names) + 1,
\* the position of the terminator, when there is none.
NameEnd(names, pos) ==
    LET stops == {k \in pos..Len(names) : names[k] = ","} IN
    IF stops = {} THEN Len(names) + 1
    ELSE CHOOSE k \in stops : \A j \in stops : k <= j

\* Variant: name_ptr steps over the terminator as over a comma.
NextNamePtr_NoLatch(name_end, reached_end_of_names) == name_end + 1

\* name_ptr = name_end; if (!reached_end_of_names) name_ptr++;
NextNamePtr(name_end, reached_end_of_names) ==
    IF reached_end_of_names THEN name_end ELSE name_end + 1

\* Variant: when units has run out, its last character is used again.
UnitAt_RepeatingLast(units, u) ==
    IF u <= Len(units) THEN units[u]
    ELSE IF Len(units) > 0 THEN units[Len(units)] ELSE "-"

\* *unit_ptr ? *unit_ptr : '-', unit_ptr at position u of units
\* (Len(units) + 1 is the position of the terminator).
UnitAt(units, u) == IF u <= Len(units) THEN units[u] ELSE "-"

\* if (*unit_ptr != 0) unit_ptr++;
NextUnitPtr(units, u) == IF u <= Len(units) THEN u + 1 ELSE u

RECURSIVE AddColumnsLoop(_, _, _, _, _, _, _, _, _)
\* The while loop of sdlog_message_format_add_columns: name_ptr at
\* position pos of names_dup, type_ptr at t, unit_ptr at u; the allocation
\* env.fail fails in the add_column call of column env.at of this call.
AddColumnsLoop(format, names, pos, types, t, units, u, reached_end_of_names, env) ==
    IF t > Len(types) THEN [ret |-> SDLOG_SUCCESS, format |-> format]
    ELSE LET name_end == NameEnd(names, pos)
             reached == reached_end_of_names \/ name_end = Len(names) + 1
             r == sdlog_message_format_add_column(
                      format, SubSeq(names, pos, name_end - 1), types[t],
                      UnitAt(units, u),
                      IF env.at = t THEN env.fail ELSE "none")
         IN  IF r.ret # SDLOG_SUCCESS THEN r
             ELSE AddColumnsLoop(
                      r.format, names, NextNamePtr(name_end, reached),
                      types, t + 1, units, NextUnitPtr(units, u),
                      reached, env)

\* Variant: a failure takes back the columns the call had added.
sdlog_message_format_add_columns_AllOrNothing(format, names, types, units, env) ==
    IF UINT8_MAX - sdlog_message_format_get_column_count(format) < Len(types)
    THEN [ret |-> SDLOG_ELIMIT, format |-> format]
    ELSE IF env.fail = "names_dup"
    THEN [ret |-> SDLOG_ENOMEM, format |-> format]
    ELSE LET r == AddColumnsLoop(format, names, 1, types, 1, units, 1, FALSE, env)
         IN  IF r.ret = SDLOG_SUCCESS THEN r ELSE [ret |-> r.ret, format |-> format]

\* env: [fail, at]; fail = "names_dup" is the allocation of the copy of names.
sdlog_message_format_add_columns(format, names, types, units, env) ==
    IF UINT8_MAX - sdlog_message_format_get_column_count(format) < Len(types)
    THEN [ret |-> SDLOG_ELIMIT, format |-> format]
    ELSE IF env.fail = "names_dup"
    THEN [ret |-> SDLOG_ENOMEM, format |-> format]
    ELSE AddColumnsLoop(format, names, 1, types, 1, units, 1, FALSE, env)

NoAllocFault == [fail |-> "none", at |-> 0]

(***************************************************************************)
(* The allocator (memory.c).  A heap is a record [live, bad_free]: live   *)
(* counts the blocks that are allocated and not freed, by what they hold; *)
(* bad_free counts the calls of sdlog_free on a block that is not live.   *)
(* The blocks of the caller's message formats and of the stream belong to *)
(* the caller.                                                             *)
(***************************************************************************)
WriterBlocks == {"columns", "name", "buf", "format_str", "column_names"}

CallerBlocks == {"caller_format", "stream"}

EmptyHeap == [live |-> [k \in WriterBlocks \cup CallerBlocks |-> 0], bad_free |-> 0]

\* sdlog_malloc returning a block that is to hold kind.
sdlog_malloc(heap, kind) == [heap EXCEPT !.live[kind] = @ + 1]

\* sdlog_free(p), p being NULL (is_null) or a pointer to a block of kind.
sdlog_free(heap, kind, is_null) ==
    IF is_null THEN heap
    ELSE IF heap.live[kind] = 0 THEN [heap EXCEPT !.bad_free = @ + 1]
    ELSE [heap EXCEPT !.live[kind] = @ - 1]

\* The heap once the blocks of a format built by sdlog_message_format_init
\* and add_column are allocated: its column array and one name per column.
FormatAllocated(heap, format) ==
    [heap EXCEPT !.live["columns"] = @ + (IF format.num_alloc_columns > 0 THEN 1 ELSE 0),
                 !.live["name"] = @ + Len(format.columns)]

RECURSIVE DestroyColumns(_, _)
\* The loop of sdlog_message_format_destroy over n columns.
DestroyColumns(heap, n) ==
    IF n = 0 THEN heap ELSE DestroyColumns(sdlog_free(heap, "name", FALSE), n - 1)

\* format->columns is NULL when no column array was allocated.
sdlog_message_format_destroy(heap, format) ==
    [heap |-> IF format.num_alloc_columns > 0
              THEN sdlog_free(DestroyColumns(heap, Len(format.columns)),
                              "columns", FALSE)
              ELSE heap,
     format |-> ZeroFormat]

(***************************************************************************)
(* The record encoder (encoder.c).  An integer argument is an integer; a  *)
(* string argument is a C string; a floating point argument is a record   *)
(* [float_bits, double_bits] holding the IEEE-754 bit patterns of the     *)
(* value as a float and as a double, most significant byte first.         *)
(***************************************************************************)
RECURSIVE LEBytes(_, _)
\* The w low-order bytes of the two-complement representation of v,
\* least significant byte first.
LEBytes(v, w) ==
    IF w = 0 THEN <<>> ELSE <<v % 256>> \o LEBytes(v \div 256, w - 1)

store16_to_LE(value) == LEBytes(value, 2)

store32_to_LE(value) == LEBytes(value, 4)

store64_to_LE(value) == LEBytes(value, 8)

Reverse(s) == [i \in 1..Len(s) |-> s[Len(s) + 1 - i]]

\* Variant: the copy always ends with a terminator inside the field.
StrncpyField_Terminated(s, num_bytes) ==
    [i \in 1..num_bytes |->
        IF i <= Len(s) /\ i < num_bytes THEN Ord(s[i]) ELSE 0]

\* memset(write_ptr, 0, num_bytes); strncpy(write_ptr, s, num_bytes)
StrncpyField(s, num_bytes) ==
    Bytes(SubSeq(s, 1, Min(Len(s), num_bytes)))
        \o Zeros(num_bytes - Min(Len(s), num_bytes))

\* Variant: the 16-bit types stored most significant byte first.
EncodeColumn_BigEndian16(type, arg) ==
    CASE type \in {"b", "B", "M"} -> <<arg % 256>>
      [] type \in {"c", "C", "h", "H"} -> Reverse(store16_to_LE(arg))
      [] type \in {"e", "E", "L", "i", "I"} -> store32_to_LE(arg)
      [] type \in {"q", "Q"} -> store64_to_LE(arg)
      [] type = "f" -> Reverse(arg.float_bits)
      [] type = "d" -> Reverse(arg.double_bits)
      [] type \in {"n", "N", "Z"} ->
            StrncpyField(arg, IF type = "Z" THEN 64 ELSE IF type = "N" THEN 16 ELSE 4)

\* The bytes one column of an implemented type stores at write_ptr.
EncodeColumn(type, arg) ==
    CASE type \in {"b", "B", "M"} -> <<arg % 256>>
      [] type \in {"c", "C", "h", "H"} -> store16_to_LE(arg)
      [] type \in {"e", "E", "L", "i", "I"} -> store32_to_LE(arg)
      [] type \in {"q", "Q"} -> store64_to_LE(arg)
      [] type = "f" -> Reverse(arg.float_bits)
      [] type = "d" -> Reverse(arg.double_bits)
      [] type \in {"n", "N", "Z"} ->
            StrncpyField(arg, IF type = "Z" THEN 64 ELSE IF type = "N" THEN 16 ELSE 4)

ImplementedTypes ==
    {"b", "B", "M", "c", "C", "h", "H", "e", "E", "L", "i", "I", "q", "Q",
     "f", "d", "n", "N", "Z"}

\* The value of *written when the encoder returned without setting it.
Unset == "unset"

RECURSIVE EncodeLoop(_, _, _, _)
\* The for loop of the encoder from column i on; buf holds the bytes from
\* the start of the buffer up to write_ptr.  written_set tells whether
\* *written was assigned.
EncodeLoop(format, args, i, buf) ==
    IF i > sdlog_message_format_get_column_count(format)
    THEN [ret |-> SDLOG_SUCCESS, written |-> Len(buf), written_set |-> TRUE,
          buf |-> buf]
    ELSE LET type == format.columns[i].type IN
         IF type \in ImplementedTypes
         THEN EncodeLoop(format, args, i + 1, buf \o EncodeColumn(type, args[i]))
         ELSE IF type = "a"
         THEN [ret |-> SDLOG_UNIMPLEMENTED, written |-> Unset,
               written_set |-> FALSE, buf |-> buf]
         ELSE [ret |-> SDLOG_EINVAL, written |-> Unset, written_set |-> FALSE,
               buf |-> buf]

\* Variant: *written is set on the failure paths as well.
sdlog_message_format_encode_va_SettingWritten(format, args) ==
    LET r == EncodeLoop(format, args, 1, <<163, 149, format.id>>)
    IN  [r EXCEPT !.written = Len(r.buf), !.written_set = TRUE]

\* Variant: the two sync bytes in the other order.
sdlog_message_format_encode_va_SwappedSync(format, args) ==
    EncodeLoop(format, args, 1, <<149, 163, format.id>>)

sdlog_message_format_encode_va(format, args) ==
    EncodeLoop(format, args, 1, <<163, 149, format.id>>)

(***************************************************************************)
(* The caller's message format objects.  A pointer to a format is its     *)
(* name in Heap; int_format2 is a second object built like int_format,    *)
(* and a record of big_format fills the 256 bytes of a message exactly.   *)
(***************************************************************************)
Column(name, type) == [name |-> name, type |-> type, unit |-> "-"]

Heap ==
    [int_format |->
        [id |-> 1, type |-> <<"I", "N", "T">>,
         columns |-> <<Column(<<"s", "8">>, "b"), Column(<<"u", "1", "6">>, "H")>>],
     int_format2 |->
        [id |-> 1, type |-> <<"I", "N", "T">>,
         columns |-> <<Column(<<"s", "8">>, "b"), Column(<<"u", "1", "6">>, "H")>>],
     float_format |->
        [id |-> 2, type |-> <<"F", "L", "T">>,
         columns |-> <<Column(<<"f", "l", "o", "a", "t">>, "f"),
                       Column(<<"d", "o", "u", "b", "l", "e">>, "d")>>],
     array_format |->
        [id |-> 2, type |-> <<"A", "R", "R">>,
         columns |-> <<Column(<<"a", "r", "r">>, "a")>>],
     big_format |->
        [id |-> 2, type |-> <<"B", "I", "G">>,
         columns |-> <<Column(<<"a">>, "Z"), Column(<<"b">>, "Z"),
                       Column(<<"c">>, "Z"), Column(<<"d">>, "N"),
                       Column(<<"e">>, "N"), Column(<<"f">>, "N"),
                       Column(<<"g">>, "q"), Column(<<"h">>, "i"),
                       Column(<<"i">>, "b")>>]]

FormatPtrs == DOMAIN Heap

\* The message ids the caller's formats use (indices of writer->formats).
Ids == {Heap[p].id : p \in FormatPtrs}

\* The doubles 0.125 and 0.25.
Double_0_125 ==
    [float_bits |-> <<62, 0, 0, 0>>, double_bits |-> <<63, 192, 0, 0, 0, 0, 0, 0>>]

Double_0_25 ==
    [float_bits |-> <<62, 128, 0, 0>>, double_bits |-> <<63, 208, 0, 0, 0, 0, 0, 0>>]

\* The argument lists the caller passes to sdlog_writer_write with a format.
WriteArgs(p) ==
    CASE p \in {"int_format", "int_format2"} -> {<<195939070, -559038737>>}
      [] p = "float_format" -> {<<Double_0_125, Double_0_25>>}
      [] p = "array_format" -> {<<0>>}
      [] p = "big_format" ->
            {<<(<<"x">>), (<<"y">>), (<<"z">>), (<<"u">>), (<<"v">>), (<<"w">>),
               -1, 195939070, 7>>}

\* Two bytes of the caller's buffer that follow an encoded message.
Slack == <<238, 255>>

\* The (message, length) pairs the caller passes to
\* sdlog_writer_write_encoded with a format; the buffer holds a record of
\* the format's size followed by Slack.
EncodedInputs(p) ==
    CASE p = "int_format" ->
            {[message |-> <<163, 149, 1, 253, 2, 1>> \o Slack, length |-> n]
                : n \in {0, 5}}
      [] p = "int_format2" -> {}
      [] p = "float_format" ->
            {[message |->
                <<163, 149, 2, 0, 0, 0, 62, 0, 0, 0, 0, 0, 0, 208, 63>> \o Slack,
              length |-> 0]}
      [] p = "array_format" -> {}
      [] p = "big_format" -> {}

(***************************************************************************)
(* The behaviour of the writer's collaborators during one call.           *)
(*   begin, flush, end: what the stream's method returns;                 *)
(*   alloc: the allocation of write_format that fails;                    *)
(*   wfail: the index, among the write calls the stream receives during   *)
(*          this call, of the one that fails (0: none), with error werr   *)
(*          after accepting wpart bytes;                                   *)
(*   script: what the write method of the stream answers to the first     *)
(*          write calls it receives: [ret, k, over], where it takes k of  *)
(*          the bytes offered (all of them when fewer are offered) and    *)
(*          reports that number, or one more than it was offered when     *)
(*          over.  A stream without script takes up to MaxChunk bytes;    *)
(*   overrun: what is read back from beyond the end of writer->buf after  *)
(*          a record longer than the block was stored in it: "intact" or  *)
(*          "clobbered".                                                   *)
(***************************************************************************)
NoFault ==
    [begin |-> SDLOG_SUCCESS, flush |-> SDLOG_SUCCESS, end |-> SDLOG_SUCCESS,
     alloc |-> "none", wfail |-> 0, werr |-> SDLOG_SUCCESS, wpart |-> 0,
     script |-> <<>>, overrun |-> "intact"]

WriteFailures == {[werr |-> SDLOG_EWRITE, wpart |-> 1]}

WriteFaults ==
      {[NoFault EXCEPT !.begin = SDLOG_EIO]}
    \cup {[NoFault EXCEPT !.alloc = a] : a \in {"format_str", "column_names"}}
    \cup {[NoFault EXCEPT !.wfail = k, !.werr = f.werr, !.wpart = f.wpart]
            : k \in 1..3, f \in WriteFailures}

EndFaults ==
    {[NoFault EXCEPT !.flush = SDLOG_EWRITE], [NoFault EXCEPT !.end = SDLOG_EIO]}

(***************************************************************************)
(* The state.                                                              *)
(***************************************************************************)
VARIABLES
    has_session,  \* writer->has_session
    formats,      \* writer->formats, restricted to Ids
    fmt_message_format,  \* writer->fmt_message_format
    destroyed,    \* sdlog_writer_destroy has returned
    streamBytes,  \* the bytes the stream has accepted, in order
    faults,       \* the number of calls on the writer in which a collaborator failed
    trace,        \* the calls the writer made to its collaborators, with results
    calls,        \* the calls made on the writer, with results
    objects,      \* the caller's message format objects, by pointer
    blocks,       \* the heap: the blocks allocated and not freed
    initCall,     \* the call of sdlog_writer_init, with its result
    ostream,      \* the context of a buffer output stream
    wrote,        \* the bytes of the successful writes on ostream, in order
    istream,      \* the context of a buffer input stream
    delivered,    \* the bytes the reads on istream returned, in order
    ioCall,       \* the last call made on a stream directly, with its result
    fp,           \* the FILE behind a file input stream
    loop,         \* a call of sdlog_ostream_write_all in progress
    errCall,      \* the last call of sdlog_error_to_string
    columnCall,   \* the last direct call of sdlog_message_column_format_init
    encCall,      \* the last direct call of the encoder
    msgFormat,    \* a message format object of the caller
    formatReady,  \* sdlog_message_format_init has succeeded on msgFormat
    formatCall    \* the last call made on msgFormat, with its result

vars == <<has_session, formats, fmt_message_format, destroyed, streamBytes, faults, trace, calls,
         objects, blocks, initCall, ostream, wrote, istream, delivered, ioCall,
         fp, loop, errCall, columnCall, encCall, msgFormat, formatReady, formatCall>>

streamVars == <<ostream, wrote, istream, delivered, ioCall, fp, loop>>

formatVars == <<msgFormat, formatReady, formatCall>>

writerVars == <<has_session, formats, fmt_message_format, destroyed, streamBytes, faults, trace, calls,
               objects, blocks, initCall>>

(***************************************************************************)
(* Output streams (base.c).  st is the record [has_session, formats,      *)
(* fmt_message_format, objects, heap, bytes, log, nwrites] of the writer, *)
(* the caller's objects, the heap and the stream during a call on the     *)
(* writer; every operator returns the result code and the new st.         *)
(***************************************************************************)
Event(op, ret, n) == [op |-> op, ret |-> ret, n |-> n]

Logged(st, op, ret, n) == [st EXCEPT !.log = Append(@, Event(op, ret, n))]

sdlog_ostream_begin_session(st, env) ==
    [ret |-> env.begin, st |-> Logged(st, "begin_session", env.begin, 0)]

sdlog_ostream_end_session(st, env) ==
    [ret |-> env.end, st |-> Logged(st, "end_session", env.end, 0)]

sdlog_ostream_flush(st, env) ==
    [ret |-> env.flush, st |-> Logged(st, "flush", env.flush, 0)]

\* The stream's write method, called with length > 0.
StreamWrite(st, data, env) ==
    LET failing == st.nwrites + 1 = env.wfail
        scripted == st.nwrites + 1 \in DOMAIN env.script
        answer == env.script[st.nwrites + 1]
        n == IF scripted THEN Min(answer.k, Len(data))
             ELSE IF failing THEN Min(env.wpart, Len(data) - 1)
             ELSE Min(MaxChunk, Len(data))
        ret == IF scripted THEN answer.ret
               ELSE IF failing THEN env.werr ELSE SDLOG_SUCCESS
        written == IF scripted /\ answer.over THEN Len(data) + 1 ELSE n
    IN  [ret |-> ret, written |-> written,
         st |-> [Logged(st, "write", ret, written) EXCEPT
                    !.bytes = @ \o SubSeq(data, 1, n),
                    !.nwrites = @ + 1]]

sdlog_ostream_write(st, data, env) ==
    IF Len(data) = 0
    THEN [ret |-> SDLOG_SUCCESS, written |-> 0, st |-> st]
    ELSE StreamWrite(st, data, env)

RECURSIVE sdlog_ostream_write_all(_, _, _)
\* A write_all that does not retry after a partial write.
sdlog_ostream_write_all_OneShot(st, data, env) ==
    IF Len(data) > 0
    THEN LET w == sdlog_ostream_write(st, data, env) IN
         IF w.ret # SDLOG_SUCCESS THEN [ret |-> w.ret, st |-> w.st]
         ELSE IF w.written <= Len(data)
         THEN [ret |-> SDLOG_SUCCESS, st |-> w.st]
         ELSE [ret |-> SDLOG_EWRITE, st |-> w.st]
    ELSE [ret |-> SDLOG_SUCCESS, st |-> st]

sdlog_ostream_write_all(st, data, env) ==
    IF Len(data) > 0
    THEN LET w == sdlog_ostream_write(st, data, env) IN
         IF w.ret # SDLOG_SUCCESS THEN [ret |-> w.ret, st |-> w.st]
         ELSE IF w.written <= Len(data)
         THEN sdlog_ostream_write_all(
                  w.st, SubSeq(data, w.written + 1, Len(data)), env)
         ELSE [ret |-> SDLOG_EWRITE, st |-> w.st]
    ELSE [ret |-> SDLOG_SUCCESS, st |-> st]

(***************************************************************************)
(* Buffer streams (base.c).  The context of an output stream is           *)
(* [mem, end, alloc_end]: the block at ctx->data, and ctx->end and        *)
(* ctx->alloc_end as offsets from ctx->data.  The context of an input     *)
(* stream is [data, read_ptr, end]: the caller's bytes, and ctx->read_ptr *)
(* and ctx->end as offsets from ctx->data.                                 *)
(***************************************************************************)
\* The size of the block sdlog_ostream_init_buffer allocates.
BufferInitialSize == 16

\* n bytes of a block that were never written.
Uninitialized(n) == [i \in 1..n |-> 170]

\* memcpy(mem + at, data, Len(data))
Memcpy(mem, at, data) ==
    [i \in 1..Len(mem) |->
        IF at < i /\ i <= at + Len(data) THEN data[i - at] ELSE mem[i]]

\* The context after a successful sdlog_ostream_init_buffer.
sdlog_ostream_init_buffer ==
    [mem |-> Uninitialized(BufferInitialSize), end |-> 0,
     alloc_end |-> BufferInitialSize]

sdlog_ostream_buffer_get(ctx) ==
    [data |-> ctx.mem, size |-> ctx.end - 0]

buffer_remaining(ctx) == ctx.alloc_end - ctx.end

\* A buffer_grow that adds the initial size instead of doubling.
buffer_grow_FixedStep(ctx, ok) ==
    LET alloc_length == ctx.alloc_end - 0
        new_alloc_length == alloc_length + BufferInitialSize
    IN  IF ~ok THEN [ret |-> SDLOG_ENOMEM, ctx |-> ctx]
        ELSE [ret |-> SDLOG_SUCCESS,
              ctx |-> [mem |-> ctx.mem \o Uninitialized(new_alloc_length - alloc_length),
                       end |-> ctx.end,
                       alloc_end |-> new_alloc_length]]

\* ok: sdlog_realloc returns a block; it holds the bytes of the old one.
buffer_grow(ctx, ok) ==
    LET alloc_length == ctx.alloc_end - 0
        new_alloc_length == alloc_length * 2
    IN  IF ~ok THEN [ret |-> SDLOG_ENOMEM, ctx |-> ctx]
        ELSE [ret |-> SDLOG_SUCCESS,
              ctx |-> [mem |-> ctx.mem \o Uninitialized(new_alloc_length - alloc_length),
                       end |-> ctx.end,
                       alloc_end |-> new_alloc_length]]

RECURSIVE BufferGrowLoop(_, _, _, _)
\* The while loop of buffer_write after grows calls of buffer_grow; the
\* call number growfail of sdlog_realloc fails (0: none).
BufferGrowLoop(ctx, length, grows, growfail) ==
    IF buffer_remaining(ctx) < length
    THEN LET g == buffer_grow(ctx, grows + 1 # growfail) IN
         IF g.ret # SDLOG_SUCCESS THEN g
         ELSE BufferGrowLoop(g.ctx, length, grows + 1, growfail)
    ELSE [ret |-> SDLOG_SUCCESS, ctx |-> ctx]

buffer_write(ctx, data, growfail) ==
    LET g == BufferGrowLoop(ctx, Len(data), 0, growfail) IN
    IF g.ret # SDLOG_SUCCESS
    THEN [ret |-> g.ret, written |-> 0, written_set |-> FALSE, ctx |-> g.ctx]
    ELSE [ret |-> SDLOG_SUCCESS, written |-> Len(data), written_set |-> TRUE,
          ctx |-> [g.ctx EXCEPT !.mem = Memcpy(g.ctx.mem, g.ctx.end, data),
                                !.end = @ + Len(data)]]

\* sdlog_ostream_write on a buffer stream.
BufferOStreamWrite(ctx, data, growfail) ==
    IF Len(data) = 0
    THEN [ret |-> SDLOG_SUCCESS, written |-> 0, written_set |-> TRUE, ctx |-> ctx]
    ELSE buffer_write(ctx, data, growfail)

\* sdlog_ostream_flush on a buffer stream, whose methods have no flush.
BufferOStreamFlush(ctx) == [ret |-> SDLOG_SUCCESS, ctx |-> ctx]

\* The context after a successful sdlog_istream_init_buffer(stream, data,
\* length) with length = Len(data).
sdlog_istream_init_buffer(data) ==
    [data |-> data, read_ptr |-> 0, end |-> 0 + Len(data)]

\* A buffer_read that reports the end of the stream with the last bytes.
buffer_read_EarlyEof(ctx, length) ==
    LET remaining == ctx.end - ctx.read_ptr
        to_read == IF remaining > length THEN length ELSE remaining
    IN  IF remaining <= length
        THEN [ret |-> SDLOG_EOF, read |-> 0, bytes |-> <<>>, ctx |-> ctx]
        ELSE [ret |-> SDLOG_SUCCESS, read |-> to_read,
              bytes |-> SubSeq(ctx.data, ctx.read_ptr + 1, ctx.read_ptr + to_read),
              ctx |-> [ctx EXCEPT !.read_ptr = @ + to_read]]

\* The read method of a buffer stream; bytes is what it copied to the
\* caller's buffer.
buffer_read(ctx, length) ==
    LET remaining == ctx.end - ctx.read_ptr
        to_read == IF remaining > length THEN length ELSE remaining
    IN  IF remaining = 0
        THEN [ret |-> SDLOG_EOF, read |-> 0, bytes |-> <<>>, ctx |-> ctx]
        ELSE [ret |-> SDLOG_SUCCESS, read |-> to_read,
              bytes |-> SubSeq(ctx.data, ctx.read_ptr + 1, ctx.read_ptr + to_read),
              ctx |-> [ctx EXCEPT !.read_ptr = @ + to_read]]

\* fopen on a file that holds data.
fopen(data) == [data |-> data, pos |-> 0, eof |-> FALSE, error |-> FALSE]

\* No call of sdlog_ostream_write_all is in progress.
NoWriteAll == [pc |-> "idle"]

\* No call of sdlog_error_to_string is made.
NoErrCall == [called |-> FALSE]

\* No direct call of sdlog_message_column_format_init is made.
NoColumnCall == [called |-> FALSE]

\* No file stream is read, no sdlog_ostream_write_all is followed step by
\* step, no error message is asked for and no column format is built
\* directly.
NoFileCalls ==
    /\ fp = fopen(<<>>)
    /\ loop = NoWriteAll
    /\ errCall = NoErrCall
    /\ columnCall = NoColumnCall

\* No call is made on a stream directly in the behaviours of the writer,
\* of the encoder and of the message formats.
NoStreamCall == [op |-> "none", n |-> 0]

NoStreamCalls ==
    /\ ostream = sdlog_ostream_init_buffer
    /\ wrote = <<>>
    /\ istream = sdlog_istream_init_buffer(<<>>)
    /\ delivered = <<>>
    /\ ioCall = NoStreamCall
    /\ NoFileCalls

(***************************************************************************)
(* The writer (writer.c).                                                  *)
(***************************************************************************)
\* The local fmt_format of sdlog_writer_init, which becomes
\* writer->fmt_message_format.
fmt_format ==
    sdlog_message_format_add_columns(
        sdlog_message_format_init(ZeroFormat, SDLOG_ID_FMT, <<"F", "M", "T">>, TRUE).format,
        <<"T", "y", "p", "e", ",", "L", "e", "n", "g", "t", "h", ",",
          "N", "a", "m", "e", ",", "F", "o", "r", "m", "a", "t", ",",
          "C", "o", "l", "u", "m", "n", "s">>,
        <<"B", "B", "n", "N", "Z">>, <<"-", "-", "-", "-", "-">>,
        NoAllocFault).format

\* sdlog_writer_init on the writer object, whose fmt_message_format is fmt0
\* before the call; env tells the allocation that fails: "columns" (the
\* column array of sdlog_message_format_init), "names_dup", "realloc" or
\* "name" in the add_column call of column env.at, or "buf".  A local
\* fmt_format that was not stored in the writer is lost when the function
\* returns; its blocks stay allocated.
sdlog_writer_init(heap, fmt0, env) ==
    LET f == sdlog_message_format_init(
                 Garbage, SDLOG_ID_FMT, <<"F", "M", "T">>, env.fail # "columns")
    IN  IF f.ret # SDLOG_SUCCESS
        THEN [ret |-> f.ret, fmt_message_format |-> fmt0, heap |-> heap]
        ELSE LET c == sdlog_message_format_add_columns(
                          f.format,
                          <<"T", "y", "p", "e", ",", "L", "e", "n", "g", "t", "h", ",",
                            "N", "a", "m", "e", ",", "F", "o", "r", "m", "a", "t", ",",
                            "C", "o", "l", "u", "m", "n", "s">>,
                          <<"B", "B", "n", "N", "Z">>, <<"-", "-", "-", "-", "-">>,
                          env)
                 h == FormatAllocated(heap, c.format)
             IN  IF c.ret # SDLOG_SUCCESS
                 THEN [ret |-> c.ret, fmt_message_format |-> fmt0, heap |-> h]
                 ELSE IF env.fail = "buf"
                 THEN [ret |-> SDLOG_ENOMEM, fmt_message_format |-> c.format,
                       heap |-> h]
                 ELSE [ret |-> SDLOG_SUCCESS, fmt_message_format |-> c.format,
                       heap |-> sdlog_malloc(h, "buf")]

\* Variant: the session is marked as started before begin_session is called.
ensure_session_started_MarkingFirst(st, env) ==
    IF ~st.has_session
    THEN LET b == sdlog_ostream_begin_session([st EXCEPT !.has_session = TRUE], env)
         IN  IF b.ret # SDLOG_SUCCESS THEN b
             ELSE [ret |-> SDLOG_SUCCESS, st |-> b.st]
    ELSE [ret |-> SDLOG_SUCCESS, st |-> st]

\* Variant: the session counts as started even when begin_session failed.
ensure_session_started_IgnoringFailure(st, env) ==
    IF ~st.has_session
    THEN [ret |-> SDLOG_SUCCESS,
          st |-> [sdlog_ostream_begin_session(st, env).st
                     EXCEPT !.has_session = TRUE]]
    ELSE [ret |-> SDLOG_SUCCESS, st |-> st]

ensure_session_started(st, env) ==
    IF ~st.has_session
    THEN LET b == sdlog_ostream_begin_session(st, env) IN
         IF b.ret # SDLOG_SUCCESS THEN b
         ELSE [ret |-> SDLOG_SUCCESS, st |-> [b.st EXCEPT !.has_session = TRUE]]
    ELSE [ret |-> SDLOG_SUCCESS, st |-> st]

\* The bytes read from writer->buf after the encoder stored buf in it.
\* The block has SDLOG_MAX_MESSAGE_LENGTH bytes; storing more is undefined
\* behaviour, after which the bytes beyond the block are read back as
\* they were stored or as something else (env.overrun).
WriterBuf(buf, env) ==
    IF Len(buf) <= SDLOG_MAX_MESSAGE_LENGTH \/ env.overrun = "intact" THEN buf
    ELSE [i \in 1..Len(buf) |->
             IF i <= SDLOG_MAX_MESSAGE_LENGTH THEN buf[i] ELSE 170]

write_record_va(st, format, args, env) ==
    LET e == sdlog_message_format_encode_va(format, args)
        st1 == Logged(st, "encode", e.ret, 0)
    IN  IF e.ret # SDLOG_SUCCESS THEN [ret |-> e.ret, st |-> st1]
        ELSE sdlog_ostream_write_all(
                 st1, SubSeq(WriterBuf(e.buf, env), 1, e.written), env)

\* A string getter of the format called from write_format: the block of
\* the result is allocated unless the getter returns NULL.
Got(st, op, kind, ok) ==
    [Logged(st, op, IF ok THEN SDLOG_SUCCESS ELSE SDLOG_ENOMEM, 0)
        EXCEPT !.heap = IF ok THEN sdlog_malloc(@, kind) ELSE @]

\* The cleanup label of write_format, reached with result r.
write_format_cleanup(r, column_names_null, format_str_null) ==
    [r EXCEPT !.st.heap =
        sdlog_free(sdlog_free(@, "column_names", column_names_null),
                   "format_str", format_str_null)]

\* Variant: a format whose type codes do not fit the Format field is
\* refused.
write_format_RejectingWide(st, format, env) ==
    IF sdlog_message_format_get_column_count(format) > 16
    THEN [ret |-> SDLOG_ELIMIT, st |-> st]
    ELSE IF env.alloc = "format_str"
    THEN write_format_cleanup(
             [ret |-> SDLOG_ENOMEM,
              st |-> Got(st, "get_format_string", "format_str", FALSE)],
             TRUE, TRUE)
    ELSE LET format_str == sdlog_message_format_get_format_string(format)
             st1 == Got(st, "get_format_string", "format_str", TRUE)
         IN
         IF env.alloc = "column_names"
         THEN write_format_cleanup(
                  [ret |-> SDLOG_ENOMEM,
                   st |-> Got(st1, "get_column_names", "column_names", FALSE)],
                  TRUE, FALSE)
         ELSE LET column_names ==
                      sdlog_message_format_get_column_names(format, <<",">>)
                  st2 == Got(st1, "get_column_names", "column_names", TRUE)
              IN  write_format_cleanup(
                      write_record_va(
                          st2, st.fmt_message_format,
                          <<format.id, sdlog_message_format_get_size(format) + 3,
                            format.type, format_str, column_names>>,
                          env),
                      FALSE, FALSE)

write_format(st, format, env) ==
    IF env.alloc = "format_str"
    THEN write_format_cleanup(
             [ret |-> SDLOG_ENOMEM,
              st |-> Got(st, "get_format_string", "format_str", FALSE)],
             TRUE, TRUE)
    ELSE LET format_str == sdlog_message_format_get_format_string(format)
             st1 == Got(st, "get_format_string", "format_str", TRUE)
         IN
         IF env.alloc = "column_names"
         THEN write_format_cleanup(
                  [ret |-> SDLOG_ENOMEM,
                   st |-> Got(st1, "get_column_names", "column_names", FALSE)],
                  TRUE, FALSE)
         ELSE LET column_names ==
                      sdlog_message_format_get_column_names(format, <<",">>)
                  st2 == Got(st1, "get_column_names", "column_names", TRUE)
              IN  write_format_cleanup(
                      write_record_va(
                          st2, st.fmt_message_format,
                          <<format.id, sdlog_message_format_get_size(format) + 3,
                            format.type, format_str, column_names>>,
                          env),
                      FALSE, FALSE)

\* Variant: announcement keyed by the message id alone.
write_format_if_needed_KeyedById(st, format, env) ==
    IF st.formats[st.objects[format].id] = NULL
    THEN LET r == write_format(st, st.objects[format], env) IN
         [ret |-> r.ret, st |-> [r.st EXCEPT !.formats[st.objects[format].id] = format]]
    ELSE [ret |-> SDLOG_SUCCESS, st |-> st]

\* Variant: a failure of write_format is not reported.
write_format_if_needed_Swallowing(st, format, env) ==
    IF st.formats[st.objects[format].id] # format
    THEN LET r == write_format(st, st.objects[format], env) IN
         [ret |-> SDLOG_SUCCESS,
          st |-> [r.st EXCEPT !.formats[st.objects[format].id] = format]]
    ELSE [ret |-> SDLOG_SUCCESS, st |-> st]

\* format is the pointer; st.objects[format] is the object it points to.
write_format_if_needed(st, format, env) ==
    IF st.formats[st.objects[format].id] # format
    THEN LET r == write_format(st, st.objects[format], env) IN
         [ret |-> r.ret, st |-> [r.st EXCEPT !.formats[st.objects[format].id] = format]]
    ELSE [ret |-> SDLOG_SUCCESS, st |-> st]

\* Variant: a format whose record could not be encoded is forgotten again.
sdlog_writer_write_va_Unannouncing(st, format, args, env) ==
    LET s == ensure_session_started(st, env) IN
    IF s.ret # SDLOG_SUCCESS THEN s
    ELSE LET f == write_format_if_needed(s.st, format, env) IN
         IF f.ret # SDLOG_SUCCESS THEN f
         ELSE LET w == write_record_va(f.st, f.st.objects[format], args, env) IN
              IF w.ret = SDLOG_SUCCESS THEN w
              ELSE [w EXCEPT !.st.formats[st.objects[format].id] = NULL]

\* Variant: the data record is written before the FMT record.
sdlog_writer_write_va_RecordFirst(st, format, args, env) ==
    LET s == ensure_session_started(st, env) IN
    IF s.ret # SDLOG_SUCCESS THEN s
    ELSE LET w == write_record_va(s.st, s.st.objects[format], args, env) IN
         IF w.ret # SDLOG_SUCCESS THEN w
         ELSE write_format_if_needed(w.st, format, env)

sdlog_writer_write_va(st, format, args, env) ==
    LET s == ensure_session_started(st, env) IN
    IF s.ret # SDLOG_SUCCESS THEN s
    ELSE LET f == write_format_if_needed(s.st, format, env) IN
         IF f.ret # SDLOG_SUCCESS THEN f
         ELSE write_record_va(f.st, f.st.objects[format], args, env)

\* Variant: a length of 0 is taken as it is.
sdlog_writer_write_encoded_NoDefaultLength(st, format, message, length, env) ==
    LET s == ensure_session_started(st, env) IN
    IF s.ret # SDLOG_SUCCESS THEN s
    ELSE LET f == write_format_if_needed(s.st, format, env) IN
         IF f.ret # SDLOG_SUCCESS THEN f
         ELSE sdlog_ostream_write_all(f.st, SubSeq(message, 1, length), env)

sdlog_writer_write_encoded(st, format, message, length, env) ==
    LET len == IF length = 0
               THEN sdlog_message_format_get_size(st.objects[format]) + 3
               ELSE length
        s == ensure_session_started(st, env)
    IN  IF s.ret # SDLOG_SUCCESS THEN s
        ELSE LET f == write_format_if_needed(s.st, format, env) IN
             IF f.ret # SDLOG_SUCCESS THEN f
             ELSE sdlog_ostream_write_all(f.st, SubSeq(message, 1, len), env)

sdlog_writer_flush(st, env) == sdlog_ostream_flush(st, env)

\* Variant: the stream is flushed whether or not a session is open.
sdlog_writer_end_AlwaysFlushing(st, env) ==
    LET f == sdlog_writer_flush(st, env) IN
    IF f.ret # SDLOG_SUCCESS THEN f
    ELSE IF ~st.has_session THEN [ret |-> SDLOG_SUCCESS, st |-> f.st]
    ELSE LET e == sdlog_ostream_end_session(f.st, env) IN
         IF e.ret # SDLOG_SUCCESS THEN e
         ELSE [ret |-> SDLOG_SUCCESS, st |-> [e.st EXCEPT !.has_session = FALSE]]

\* Variant: ending the session also releases the private FMT format.
sdlog_writer_end_ReleasingFmt(st, env) ==
    IF st.has_session
    THEN LET f == sdlog_writer_flush(st, env) IN
         IF f.ret # SDLOG_SUCCESS THEN f
         ELSE LET e == sdlog_ostream_end_session(f.st, env) IN
              IF e.ret # SDLOG_SUCCESS THEN e
              ELSE [ret |-> SDLOG_SUCCESS,
                    st |-> [e.st EXCEPT !.has_session = FALSE,
                                        !.fmt_message_format = ZeroFormat]]
    ELSE [ret |-> SDLOG_SUCCESS, st |-> st]

sdlog_writer_end(st, env) ==
    IF st.has_session
    THEN LET f == sdlog_writer_flush(st, env) IN
         IF f.ret # SDLOG_SUCCESS THEN f
         ELSE LET e == sdlog_ostream_end_session(f.st, env) IN
              IF e.ret # SDLOG_SUCCESS THEN e
              ELSE [ret |-> SDLOG_SUCCESS, st |-> [e.st EXCEPT !.has_session = FALSE]]
    ELSE [ret |-> SDLOG_SUCCESS, st |-> st]

\* Variant: the formats recorded in writer->formats and the stream are
\* destroyed with the writer.
sdlog_writer_destroy_TakingOwnership(st, env) ==
    LET e == IF st.has_session THEN sdlog_writer_end(st, env).st ELSE st
        d == sdlog_message_format_destroy(e.heap, e.fmt_message_format)
        owned == {e.formats[i] : i \in Ids} \ {NULL}
    IN  [ret |-> SDLOG_SUCCESS,
         st |-> [e EXCEPT !.has_session = FALSE, !.formats = [i \in Ids |-> NULL],
                          !.fmt_message_format = d.format,
                          !.objects = [p \in DOMAIN @ |->
                                          IF p \in owned THEN ZeroFormat ELSE @[p]],
                          !.heap = [sdlog_free(d.heap, "buf", FALSE)
                                       EXCEPT !.live["stream"] = 0]]]

\* sdlog_writer_destroy returns nothing; the writer is zeroed at the end.
sdlog_writer_destroy(st, env) ==
    LET e == IF st.has_session THEN sdlog_writer_end(st, env).st ELSE st
        d == sdlog_message_format_destroy(e.heap, e.fmt_message_format)
    IN  [ret |-> SDLOG_SUCCESS,
         st |-> [e EXCEPT !.has_session = FALSE, !.formats = [i \in Ids |-> NULL],
                          !.fmt_message_format = d.format,
                          !.heap = sdlog_free(d.heap, "buf", FALSE)]]

(***************************************************************************)
(* The calls made on the writer.                                           *)
(***************************************************************************)
\* The writer and its stream when a call on the writer starts.
Current ==
    [has_session |-> has_session, formats |-> formats,
     fmt_message_format |-> fmt_message_format, objects |-> objects,
     heap |-> blocks, bytes |-> streamBytes, log |-> trace, nwrites |-> 0]

\* A fault the environment chose is one that happened: the last call the
\* writer made to a collaborator failed.
Fired(env, st) ==
    \/ env = NoFault /\ faults' = faults
    \/ /\ env # NoFault
       /\ faults < MaxFaults
       /\ Len(st.log) > Len(trace)
       /\ st.log[Len(st.log)].ret # SDLOG_SUCCESS
       /\ faults' = faults + 1

\* The record of a call on the writer: its arguments, its result, and where
\* streamBytes and trace stood before (0) and after (1) it.
Call(op, format, args, message, length, r) ==
    [op |-> op, format |-> format, args |-> args, message |-> message,
     length |-> length,
     ret |-> r.ret, session0 |-> has_session, session1 |-> r.st.has_session,
     announced0 |-> IF format = NULL THEN FALSE
                    ELSE formats[objects[format].id] = format,
     formats0 |-> formats, formats1 |-> r.st.formats,
     fmt0 |-> fmt_message_format, fmt1 |-> r.st.fmt_message_format,
     objects0 |-> objects, objects1 |-> r.st.objects,
     heap0 |-> blocks, heap1 |-> r.st.heap,
     bytes0 |-> Len(streamBytes), bytes1 |-> Len(r.st.bytes),
     trace0 |-> Len(trace), trace1 |-> Len(r.st.log)]

\* The effect of a call with result r on the state.
Returns(op, format, args, message, length, r) ==
    /\ has_session' = r.st.has_session
    /\ formats' = r.st.formats
    /\ fmt_message_format' = r.st.fmt_message_format
    /\ objects' = r.st.objects
    /\ blocks' = r.st.heap
    /\ streamBytes' = r.st.bytes
    /\ trace' = r.st.log
    /\ calls' = Append(calls, Call(op, format, args, message, length, r))
    /\ UNCHANGED <<initCall, encCall, formatVars, streamVars, errCall, columnCall>>

\* The writer can be used once sdlog_writer_init succeeded on it.
Initialized == initCall.called /\ initCall.ret = SDLOG_SUCCESS

CanCall == Initialized /\ ~destroyed /\ Len(calls) < MaxCalls

Write(format, args, env) ==
    /\ CanCall
    /\ \E r \in {sdlog_writer_write_va(Current, format, args, env)} :
       /\ Fired(env, r.st)
       /\ Returns("write", format, args, <<>>, 0, r)
    /\ UNCHANGED destroyed

WriteEncoded(format, message, length, env) ==
    /\ CanCall
    /\ \E r \in {sdlog_writer_write_encoded(Current, format, message, length, env)} :
       /\ Fired(env, r.st)
       /\ Returns("write_encoded", format, <<>>, message, length, r)
    /\ UNCHANGED destroyed

Flush(env) ==
    /\ CanCall
    /\ \E r \in {sdlog_writer_flush(Current, env)} :
       /\ Fired(env, r.st)
       /\ Returns("flush", NULL, <<>>, <<>>, 0, r)
    /\ UNCHANGED destroyed

End(env) ==
    /\ CanCall
    /\ \E r \in {sdlog_writer_end(Current, env)} :
       /\ Fired(env, r.st)
       /\ Returns("end", NULL, <<>>, <<>>, 0, r)
    /\ UNCHANGED destroyed

Destroy(env) ==
    /\ CanCall
    /\ \E r \in {sdlog_writer_destroy(Current, env)} :
       /\ Fired(env, r.st)
       /\ Returns("destroy", NULL, <<>>, <<>>, 0, r)
    /\ destroyed' = TRUE

\* No call is made on msgFormat in the behaviours of the writer and of the
\* encoder.
NoFormatCall == [op |-> "none", n |-> 0]

NoFormatObject ==
    /\ msgFormat = Garbage
    /\ formatReady = FALSE
    /\ formatCall = NoFormatCall

\* No direct call of the encoder is made in the behaviours of the writer.
NoEncCall == [called |-> FALSE]

\* The heap when the caller has built its message formats and its stream:
\* a column array and one name per column for each format, and the
\* context of the stream.
CallerHeap ==
    [EmptyHeap EXCEPT
        !.live["caller_format"] = Cardinality(FormatPtrs) + Cardinality(
            {<<p, i>> \in FormatPtrs \X (1..UINT8_MAX) : i <= Len(Heap[p].columns)}),
        !.live["stream"] = 1]

\* The writer after sdlog_writer_init(&writer, &stream) succeeded, in the
\* caller's heap.
InitializedWriter ==
    /\ has_session = FALSE
    /\ formats = [i \in Ids |-> NULL]
    /\ fmt_message_format = fmt_format
    /\ objects = Heap
    /\ blocks = sdlog_writer_init(CallerHeap, Garbage, NoAllocFault).heap
    /\ initCall = [called |-> TRUE, ret |-> SDLOG_SUCCESS]
    /\ destroyed = FALSE
    /\ streamBytes = <<>>
    /\ faults = 0
    /\ trace = <<>>
    /\ calls = <<>>

\* The state after sdlog_writer_init succeeded on a fresh stream.
Init ==
    /\ InitializedWriter
    /\ encCall = NoEncCall
    /\ NoFormatObject
    /\ NoStreamCalls

Next ==
    \/ \E p \in FormatPtrs : \E args \in WriteArgs(p) :
          \E env \in {NoFault} \cup WriteFaults : Write(p, args, env)
    \/ \E p \in FormatPtrs : \E in \in EncodedInputs(p) :
          \E env \in {NoFault} \cup WriteFaults :
             WriteEncoded(p, in.message, in.length, env)
    \/ \E env \in {NoFault, [NoFault EXCEPT !.flush = SDLOG_EWRITE]} : Flush(env)
    \/ \E env \in {NoFault} \cup EndFaults : End(env)
    \/ \E env \in {NoFault} \cup EndFaults : Destroy(env)

Spec == Init /\ [][Next]_vars

(***************************************************************************)
(* The writer from its construction on: sdlog_writer_init, in which any   *)
(* one allocation may fail, and then the calls on the writer.             *)
(***************************************************************************)
\* The allocation of sdlog_writer_init that fails.
InitFaults ==
    {NoAllocFault, [fail |-> "columns", at |-> 0], [fail |-> "names_dup", at |-> 0],
     [fail |-> "realloc", at |-> 5], [fail |-> "buf", at |-> 0]}
    \cup {[fail |-> "name", at |-> k] : k \in 1..5}

WriterInit(env) ==
    /\ ~initCall.called
    /\ \E r \in {sdlog_writer_init(blocks, fmt_message_format, env)} :
          /\ env.fail # "none" => r.ret = SDLOG_ENOMEM
          /\ initCall' = [called |-> TRUE, ret |-> r.ret]
          /\ fmt_message_format' = r.fmt_message_format
          /\ blocks' = r.heap
    /\ UNCHANGED <<has_session, formats, destroyed, streamBytes, faults, trace, calls,
                   objects, encCall, formatVars, streamVars, errCall, columnCall>>

\* The writer object before sdlog_writer_init: memory never written (no
\* call reads it before the init has succeeded).
InitMemory ==
    /\ has_session = FALSE
    /\ formats = [i \in Ids |-> NULL]
    /\ fmt_message_format = Garbage
    /\ objects = Heap
    /\ blocks = CallerHeap
    /\ initCall = [called |-> FALSE]
    /\ destroyed = FALSE
    /\ streamBytes = <<>>
    /\ faults = 0
    /\ trace = <<>>
    /\ calls = <<>>
    /\ encCall = NoEncCall
    /\ NoFormatObject
    /\ NoStreamCalls

NextMemory ==
    \/ \E env \in InitFaults : WriterInit(env)
    \/ Next

SpecMemory == InitMemory /\ [][NextMemory]_vars

(***************************************************************************)
(* Direct calls of the encoder: sdlog_message_format_encode on a format   *)
(* of up to MaxEncColumns columns, with one argument per column of the    *)
(* kind the column type asks for.                                          *)
(***************************************************************************)
\* The type codes of the columns: the closed set, and one code outside it.
EncodeTypes == ImplementedTypes \cup {"a", "@"}

EncodeIds == {1, 200}

\* A string of n letters: a, b, c, ...
Alphabet(n) == [i \in 1..n |-> LowerCase[((i - 1) % 26) + 1]]

\* The arguments the caller passes for a column of the given type: integers
\* inside and outside the range of the narrow types, strings shorter than,
\* as long as and longer than the field.
ArgsOfType(type) ==
    CASE type \in {"f", "d"} -> {Double_0_125, Double_0_25}
      [] type = "n" -> {<<>>, <<"I", "N", "T">>, Alphabet(4), <<"h", "e", "l", "l", "o">>}
      [] type = "N" -> {<<"h", "e", "l", "l", "o">>, Alphabet(16), Alphabet(17)}
      [] type = "Z" -> {<<"h", "e", "l", "l", "o">>, Alphabet(64), Alphabet(65)}
      [] type \in {"a", "@"} -> {0}
      [] OTHER -> {195939070, -559038737, -1}

RECURSIVE ArgLists(_, _)
\* The argument lists for the first n of the given column types.
ArgLists(types, n) ==
    IF n = 0 THEN {<<>>}
    ELSE {Append(a, v) : a \in ArgLists(types, n - 1), v \in ArgsOfType(types[n])}

TypeLists == UNION {[1..n -> EncodeTypes] : n \in 0..MaxEncColumns}

EncodeFormat(id, types) ==
    [id |-> id, type |-> <<"E", "N", "C">>,
     columns |-> [i \in 1..Len(types) |-> Column(<<"x">>, types[i])]]

InitEncode ==
    /\ InitializedWriter
    /\ NoFormatObject
    /\ NoStreamCalls
    /\ \E id \in EncodeIds : \E types \in TypeLists :
          \E args \in ArgLists(types, Len(types)) :
             encCall = [called |-> FALSE, format |-> EncodeFormat(id, types),
                        args |-> args]

Encode ==
    /\ ~encCall.called
    /\ encCall' =
          [called |-> TRUE, format |-> encCall.format, args |-> encCall.args,
           result |-> sdlog_message_format_encode_va(encCall.format, encCall.args)]
    /\ UNCHANGED <<writerVars, formatVars, streamVars, errCall, columnCall>>

NextEncode == Encode

SpecEncode == InitEncode /\ [][NextEncode]_vars

(***************************************************************************)
(* Building and querying a message format: sdlog_message_format_init on   *)
(* the caller's object, then up to MaxFormatCalls calls of add_column and *)
(* add_columns, and the getters in between.  The object starts as memory  *)
(* never written, or as a format that has been filled, one add_column at  *)
(* a time, up to one column below the largest capacity.                   *)
(***************************************************************************)
RECURSIVE LargestCapacity(_)
\* The largest num_alloc_columns that add_column reaches from c.
LargestCapacity(c) ==
    IF new_size(c) > UINT8_MAX THEN c ELSE LargestCapacity(new_size(c))

\* The format after as many successful add_column calls of a 'Z' column
\* as leave room for one more: the capacity has grown to the largest one.
FilledFormat ==
    [sdlog_message_format_init(Garbage, 9, <<"B", "I", "G">>, TRUE).format
        EXCEPT !.num_alloc_columns = LargestCapacity(4),
               !.columns = [i \in 1..(LargestCapacity(4) - 1) |->
                               [name |-> <<"x">>, type |-> "Z", unit |-> "-"]]]

FormatIds == {7}

FormatTypeNames ==
    {<<>>, <<"A">>, <<"I", "N", "T">>, <<"A", "B", "C", "D">>,
     <<"A", "B", "C", "D", "E">>, <<"A", "B", "C", "D", "E", "F">>}

ColumnNames == {<<"l", "a", "t">>}

ColumnTypes == {"B", "Z", "@"}

ColumnFaults == {"none", "realloc", "name"}

\* The (names, types, units) of the add_columns calls, each with the
\* allocation that fails.
ColumnLists ==
    {[names |-> <<"T", "y", "p", "e", ",", "L", "e", "n", "g", "t", "h", ",",
                  "N", "a", "m", "e", ",", "F", "o", "r", "m", "a", "t", ",",
                  "C", "o", "l", "u", "m", "n", "s">>,
      types |-> <<"B", "B", "n", "N", "Z">>,
      units |-> <<"-", "-", "-", "-", "-">>, env |-> e]
        : e \in {NoAllocFault, [fail |-> "names_dup", at |-> 0],
                 [fail |-> "realloc", at |-> 5], [fail |-> "name", at |-> 3]}}
    \cup {[names |-> <<"a", ",", "b">>, types |-> <<"Z", "Z">>,
           units |-> <<"m">>, env |-> NoAllocFault],
          [names |-> <<"a">>, types |-> <<"H", "@">>,
           units |-> <<>>, env |-> NoAllocFault],
          [names |-> <<"a", ",", "b", ",", "c">>, types |-> <<"q">>,
           units |-> <<>>, env |-> NoAllocFault],
          [names |-> <<>>, types |-> <<>>, units |-> <<>>, env |-> NoAllocFault],
          [names |-> <<"a", ",", ",", "b">>, types |-> <<"B", "H", "i", "q">>,
           units |-> <<"s", "m">>, env |-> NoAllocFault],
          [names |-> <<"n">>, types |-> [i \in 1..17 |-> "B"],
           units |-> <<>>, env |-> NoAllocFault]}

Separators == {<<>>, <<",">>, <<",", " ">>}

\* The record of a call that may change msgFormat.
FormatCall(op, args, r) ==
    [op |-> op, args |-> args, ret |-> r.ret, before |-> msgFormat,
     after |-> r.format, n |-> formatCall.n + 1]

\* The record of a getter call.
FormatQuery(op, args, result) ==
    [op |-> op, args |-> args, result |-> result, n |-> formatCall.n]

FormatInit(id, type, alloc) ==
    /\ ~formatReady
    /\ formatCall.op = "none"
    /\ \E r \in {sdlog_message_format_init(msgFormat, id, type, alloc)} :
          /\ msgFormat' = r.format
          /\ formatReady' = (r.ret = SDLOG_SUCCESS)
          /\ formatCall' = [FormatCall("init", [id |-> id, type |-> type, alloc |-> alloc], r)
                               EXCEPT !.n = 0]
    /\ UNCHANGED <<writerVars, encCall, streamVars, errCall, columnCall>>

CanBuild == formatReady /\ formatCall.n < MaxFormatCalls

AddColumn(name, type, unit, fail) ==
    /\ CanBuild
    /\ \E r \in {sdlog_message_format_add_column(msgFormat, name, type, unit, fail)} :
          /\ fail # "none" => r.ret = SDLOG_ENOMEM
          /\ msgFormat' = r.format
          /\ formatCall' =
                FormatCall("add_column",
                           [name |-> name, type |-> type, unit |-> unit], r)
    /\ UNCHANGED <<formatReady, writerVars, encCall, streamVars, errCall, columnCall>>

AddColumns(names, types, units, env) ==
    /\ CanBuild
    /\ \E r \in {sdlog_message_format_add_columns(msgFormat, names, types, units, env)} :
          /\ env.fail # "none" => r.ret = SDLOG_ENOMEM
          /\ msgFormat' = r.format
          /\ formatCall' =
                FormatCall("add_columns",
                           [names |-> names, types |-> types, units |-> units,
                            env |-> env], r)
    /\ UNCHANGED <<formatReady, writerVars, encCall, streamVars, errCall, columnCall>>

GetSize ==
    /\ formatReady
    /\ formatCall' =
          FormatQuery("get_size", <<>>, sdlog_message_format_get_size(msgFormat))
    /\ UNCHANGED <<msgFormat, formatReady, writerVars, encCall, streamVars, errCall, columnCall>>

\* The string returned, or NULL when malloc returned NULL.
GetFormatString(heap) ==
    /\ formatReady
    /\ formatCall' =
          FormatQuery("get_format_string", [heap |-> heap],
                      [requested |-> format_string_bytes_needed(msgFormat),
                       result |-> IF heap = "fail" THEN NULL
                                  ELSE sdlog_message_format_get_format_string(msgFormat)])
    /\ UNCHANGED <<msgFormat, formatReady, writerVars, encCall, streamVars, errCall, columnCall>>

GetColumnNames(sep, heap) ==
    /\ formatReady
    /\ formatCall' =
          FormatQuery("get_column_names", [sep |-> sep, heap |-> heap],
                      get_column_names_call(msgFormat, sep, heap))
    /\ UNCHANGED <<msgFormat, formatReady, writerVars, encCall, streamVars, errCall, columnCall>>

GetColumn(index) ==
    /\ formatReady
    /\ formatCall' =
          FormatQuery("get_column", [index |-> index],
                      sdlog_message_format_get_column(msgFormat, index))
    /\ UNCHANGED <<msgFormat, formatReady, writerVars, encCall, streamVars, errCall, columnCall>>

InitFormat ==
    /\ InitializedWriter
    /\ encCall = NoEncCall
    /\ NoStreamCalls
    /\ \/ NoFormatObject
       \/ /\ msgFormat = FilledFormat
          /\ formatReady = TRUE
          /\ formatCall = [op |-> "filled", n |-> 0]

NextFormat ==
    \/ \E id \in FormatIds : \E type \in FormatTypeNames : \E alloc \in BOOLEAN :
          FormatInit(id, type, alloc)
    \/ \E name \in ColumnNames : \E type \in ColumnTypes : \E fail \in ColumnFaults :
          AddColumn(name, type, "m", fail)
    \/ \E c \in ColumnLists : AddColumns(c.names, c.types, c.units, c.env)
    \/ GetSize
    \/ \E heap \in {"ok", "fail"} : GetFormatString(heap)
    \/ \E sep \in Separators : \E heap \in {"ok", "fail"} : GetColumnNames(sep, heap)
    \/ \E index \in {0, 1, Len(msgFormat.columns), UINT8_MAX} : GetColumn(index)

SpecFormat == InitFormat /\ [][NextFormat]_vars

(***************************************************************************)
(* What the claims speak of.                                               *)
(***************************************************************************)
\* b cut or zero-padded to n bytes: a fixed-width string field of a record.
PadTo(b, n) == [i \in 1..n |-> IF i <= Len(b) THEN b[i] ELSE 0]

\* The FMT record that describes a format (the wire format of FMT records).
FmtRecord(format) ==
    <<163, 149, SDLOG_ID_FMT, format.id,
      (sdlog_message_format_get_size(format) + 3) % 256>>
        \o PadTo(Bytes(format.type), 4)
        \o PadTo(Bytes(sdlog_message_format_get_format_string(format)), 16)
        \o PadTo(Bytes(sdlog_message_format_get_column_names(format, <<",">>)), 64)

IsWrite(c) == c.op \in {"write", "write_encoded"}

WriteCalls == {i \in DOMAIN calls : IsWrite(calls[i])}

\* The data record of a write call: the encoded arguments, or the first
\* length bytes of the caller's message.
DataRecord(c) ==
    IF c.op = "write"
    THEN sdlog_message_format_encode_va(Heap[c.format], c.args).buf
    ELSE SubSeq(c.message, 1,
                IF c.length = 0
                THEN sdlog_message_format_get_size(Heap[c.format]) + 3
                ELSE c.length)

\* The bytes the stream accepted during call i.
Appended(i) == SubSeq(streamBytes, calls[i].bytes0 + 1, calls[i].bytes1)

\* The calls the writer made to its collaborators during call i.
TraceOf(i) == SubSeq(trace, calls[i].trace0 + 1, calls[i].trace1)

\* The last write call before call i with the message id of call i (0: none).
PrevSameId(i) ==
    LET before == {j \in WriteCalls :
                     /\ j < i
                     /\ Heap[calls[j].format].id = Heap[calls[i].format].id}
    IN  IF before = {} THEN 0 ELSE CHOOSE j \in before : \A k \in before : k <= j

\* The pointer last announced for the id of call i, when every write
\* succeeded: that of the last write with this id.
LastAnnounced(i) == IF PrevSameId(i) = 0 THEN NULL ELSE calls[PrevSameId(i)].format

\* s occurs in t as a run of consecutive bytes.
Occurs(s, t) ==
    \E k \in 0..(Len(t) - Len(s)) : SubSeq(t, k + 1, k + Len(s)) = s

(***************************************************************************)
(* C1.  When every write and write_encoded call so far returned success,  *)
(* the stream holds the outputs of these calls in call order; the output  *)
(* of a call is its data record, preceded by the FMT record of its format *)
(* unless the format pointer is the one last announced for its id.        *)
(***************************************************************************)
OutputOf(i) ==
    (IF LastAnnounced(i) = calls[i].format THEN <<>>
     ELSE FmtRecord(Heap[calls[i].format]))
        \o DataRecord(calls[i])

RECURSIVE OutputsUpTo(_)
OutputsUpTo(n) ==
    IF n = 0 THEN <<>>
    ELSE OutputsUpTo(n - 1) \o (IF n \in WriteCalls THEN OutputOf(n) ELSE <<>>)

C1_StreamIsConcatenationOfOutputs ==
    (\A i \in WriteCalls : calls[i].ret = SDLOG_SUCCESS)
        => streamBytes = OutputsUpTo(Len(calls))

\* Three successful writes: one format twice, then a format of another id.
C1_Witness ==
    /\ Len(calls) = 3
    /\ \A i \in 1..3 : IsWrite(calls[i]) /\ calls[i].ret = SDLOG_SUCCESS
    /\ calls[1].format = calls[2].format
    /\ Heap[calls[3].format].id # Heap[calls[1].format].id

(***************************************************************************)
(* C2.  Every complete data record in the stream is preceded by a         *)
(* complete FMT record of its format, and a format recorded as announced  *)
(* in writer->formats has its FMT record in the stream.                   *)
(***************************************************************************)
C2_AnnouncedOnlyIfFmtWritten ==
    /\ \A id \in Ids :
          formats[id] # NULL => Occurs(FmtRecord(Heap[formats[id]]), streamBytes)
    /\ \A i \in WriteCalls :
          calls[i].ret = SDLOG_SUCCESS =>
             Occurs(FmtRecord(Heap[calls[i].format]),
                    SubSeq(streamBytes, 1,
                           calls[i].bytes1 - Len(DataRecord(calls[i]))))

(***************************************************************************)
(* C3.  Announcement is keyed by the format pointer, and only the last    *)
(* pointer of an id is remembered: a successful write whose previous      *)
(* write of the same id succeeded emits an FMT record exactly when that   *)
(* previous write was made with another pointer (or there was none).      *)
(***************************************************************************)
C3_KeyedByLastPointer ==
    \A i \in WriteCalls :
       (/\ calls[i].ret = SDLOG_SUCCESS
        /\ PrevSameId(i) # 0 => calls[PrevSameId(i)].ret = SDLOG_SUCCESS)
          => Appended(i) = OutputOf(i)

\* A, then B of the same id, then A again: three FMT records.
C3_Witness ==
    /\ Len(calls) = 3
    /\ \A i \in 1..3 : IsWrite(calls[i]) /\ calls[i].ret = SDLOG_SUCCESS
    /\ calls[1].format = "int_format"
    /\ calls[2].format = "int_format2"
    /\ calls[3].format = "int_format"
    /\ \A i \in 1..3 :
          Appended(i) = FmtRecord(Heap[calls[i].format]) \o DataRecord(calls[i])

(***************************************************************************)
(* C4.  A successful sdlog_writer_write_encoded appends the first length  *)
(* bytes of the message unchanged, after the FMT record when the format   *)
(* was not the one announced; a length of 0 stands for the size of the    *)
(* format plus 3.                                                          *)
(***************************************************************************)
C4_WriteEncodedAppendsMessage ==
    \A i \in DOMAIN calls :
       (calls[i].op = "write_encoded" /\ calls[i].ret = SDLOG_SUCCESS) =>
          Appended(i) =
             (IF calls[i].announced0 THEN <<>> ELSE FmtRecord(Heap[calls[i].format]))
                \o SubSeq(calls[i].message, 1,
                          IF calls[i].length = 0
                          THEN sdlog_message_format_get_size(Heap[calls[i].format]) + 3
                          ELSE calls[i].length)

\* The same format written twice: with a length, then with length 0 and no
\* second FMT record.
C4_Witness ==
    /\ Len(calls) >= 2
    /\ calls[1].op = "write_encoded" /\ calls[1].ret = SDLOG_SUCCESS
    /\ calls[2].op = "write_encoded" /\ calls[2].ret = SDLOG_SUCCESS
    /\ calls[1].format = calls[2].format
    /\ calls[1].length = 5 /\ calls[2].length = 0
    /\ Len(Appended(1)) = 89 + 5
    /\ Len(Appended(2)) = 6

(***************************************************************************)
(* C5.  The successful begin_session calls and the end_session calls of   *)
(* the writer alternate, starting with begin_session, whatever the stream *)
(* answers; after sdlog_writer_destroy every successful begin_session has *)
(* been followed by an end_session call.                                   *)
(***************************************************************************)
IsSessionEvent(e) ==
    \/ e.op = "begin_session" /\ e.ret = SDLOG_SUCCESS
    \/ e.op = "end_session"

SessionEvents == SelectSeq(trace, IsSessionEvent)

C5_SessionCallsAlternate ==
    /\ \A k \in DOMAIN SessionEvents :
          SessionEvents[k].op =
             IF k % 2 = 1 THEN "begin_session" ELSE "end_session"
    /\ destroyed => Len(SessionEvents) % 2 = 0

(***************************************************************************)
(* C6.  Every write call on the stream comes after a successful           *)
(* begin_session with no end_session call in between.                      *)
(***************************************************************************)
C6_WritesBeforeNextEndSessionCall ==
    \A k \in DOMAIN trace :
       trace[k].op = "write" =>
          \E j \in 1..(k - 1) :
             /\ trace[j].op = "begin_session" /\ trace[j].ret = SDLOG_SUCCESS
             /\ \A m \in (j + 1)..(k - 1) : trace[m].op # "end_session"

(***************************************************************************)
(* C6, as the code has it.  Every write call on the stream comes after a  *)
(* successful begin_session with no successful end_session call in        *)
(* between: an end_session call that failed leaves the session open.      *)
(***************************************************************************)
C6_WritesBeforeNextSuccessfulEndSession ==
    \A k \in DOMAIN trace :
       trace[k].op = "write" =>
          \E j \in 1..(k - 1) :
             /\ trace[j].op = "begin_session" /\ trace[j].ret = SDLOG_SUCCESS
             /\ \A m \in (j + 1)..(k - 1) :
                   ~(trace[m].op = "end_session" /\ trace[m].ret = SDLOG_SUCCESS)

\* A write in a second session, and a write after an end_session that failed.
C6_Witness ==
    \E k \in DOMAIN trace : \E m \in 1..(k - 1) :
       /\ trace[k].op = "write"
       /\ trace[m].op = "end_session" /\ trace[m].ret # SDLOG_SUCCESS

(***************************************************************************)
(* C7.  sdlog_writer_end on a writer without an open session returns      *)
(* SDLOG_SUCCESS, calls nothing on the stream and changes neither the     *)
(* stream nor the writer; an end that returned SDLOG_SUCCESS leaves no    *)
(* session open, so that a second end after it is such a call.            *)
(***************************************************************************)
C7_EndIsIdempotent ==
    \A i \in DOMAIN calls :
       calls[i].op = "end" =>
          /\ ~calls[i].session0 =>
                /\ calls[i].ret = SDLOG_SUCCESS
                /\ calls[i].trace1 = calls[i].trace0
                /\ calls[i].bytes1 = calls[i].bytes0
                /\ calls[i].formats1 = calls[i].formats0
                /\ ~calls[i].session1
          /\ calls[i].ret = SDLOG_SUCCESS => ~calls[i].session1

\* Writes, then end twice.
C7_Witness ==
    /\ Len(calls) = 3
    /\ calls[1].op = "write" /\ calls[1].ret = SDLOG_SUCCESS
    /\ calls[2].op = "end" /\ calls[2].ret = SDLOG_SUCCESS
    /\ calls[3].op = "end" /\ ~calls[3].session0
    /\ calls[2].trace1 > calls[2].trace0

(***************************************************************************)
(* C8.  When a call opens a session, no format is recorded as announced.  *)
(***************************************************************************)
C8_NothingAnnouncedAtSessionOpen ==
    \A i \in DOMAIN calls :
       (~calls[i].session0 /\ calls[i].session1) =>
          \A id \in Ids : calls[i].formats0[id] = NULL

(***************************************************************************)
(* C9.  When a sub-operation of a write or write_encoded call fails after *)
(* the session was started, it is the last thing the call does, the call  *)
(* returns its error code, the session stays open, and the call makes no  *)
(* flush or end_session call.                                              *)
(***************************************************************************)
C9_FailureAbortsTheWrite ==
    \A i \in WriteCalls :
       LET T == TraceOf(i) IN
       /\ \A k \in DOMAIN T :
             (T[k].ret # SDLOG_SUCCESS /\ T[k].op # "begin_session") =>
                /\ k = Len(T)
                /\ calls[i].ret = T[k].ret
                /\ calls[i].session1
       /\ \A k \in DOMAIN T : T[k].op \notin {"flush", "end_session"}
       /\ calls[i].ret # SDLOG_SUCCESS =>
             T # <<>> /\ T[Len(T)].ret = calls[i].ret

\* A stream write failed in the data record, after the FMT record went out.
C9_Witness ==
    \E i \in WriteCalls :
       /\ calls[i].ret = SDLOG_EWRITE
       /\ calls[i].bytes1 - calls[i].bytes0 > 89
       /\ calls[i].session1
       /\ has_session

(***************************************************************************)
(* C10.  A successful encode sets *written to 3 + the size of the format, *)
(* starts the buffer with 0xA3, 0x95 and the id, and places the bytes of  *)
(* column i at offset 3 + the sizes of the columns before it.             *)
(***************************************************************************)
C10_EncodeLayout ==
    (encCall.called /\ encCall.result.ret = SDLOG_SUCCESS) =>
       LET M == encCall.format
           buf == encCall.result.buf
       IN  /\ encCall.result.written = 3 + sdlog_message_format_get_size(M)
           /\ Len(buf) = encCall.result.written
           /\ buf[1] = 163 /\ buf[2] = 149 /\ buf[3] = M.id
           /\ \A i \in DOMAIN M.columns :
                 SubSeq(buf, 3 + SumSizes(M.columns, i - 1) + 1,
                             3 + SumSizes(M.columns, i))
                    = EncodeColumn(M.columns[i].type, encCall.args[i])

\* Two columns of different sizes, encoded.
C10_Witness ==
    /\ encCall.called
    /\ encCall.result.ret = SDLOG_SUCCESS
    /\ Len(encCall.format.columns) = 2
    /\ encCall.format.columns[1].type = "H"
    /\ encCall.format.columns[2].type = "Z"
    /\ encCall.result.written = 69

(***************************************************************************)
(* What the claims about the encoder speak of.                             *)
(***************************************************************************)
\* The bytes of column i in the buffer of the last encoder call.
FieldOf(i) ==
    SubSeq(encCall.result.buf,
           3 + SumSizes(encCall.format.columns, i - 1) + 1,
           3 + SumSizes(encCall.format.columns, i))

EncodedOk == encCall.called /\ encCall.result.ret = SDLOG_SUCCESS

\* The wire width of the integer type codes.
IntWidth(type) ==
    CASE type \in {"b", "B", "M"} -> 1
      [] type \in {"h", "H", "c", "C"} -> 2
      [] type \in {"i", "I", "e", "E", "L"} -> 4
      [] type \in {"q", "Q"} -> 8
      [] OTHER -> 0

SignedTypes == {"b", "h", "c", "i", "e", "L", "q"}

RECURSIVE Pow256(_)
Pow256(k) == IF k = 0 THEN 1 ELSE 256 * Pow256(k - 1)

RECURSIVE DecodeUnsigned(_)
\* Little-endian decoding of up to 3 bytes as an unsigned number.
DecodeUnsigned(f) ==
    IF f = <<>> THEN 0 ELSE f[1] + 256 * DecodeUnsigned(Tail(f))

\* Little-endian decoding of up to 4 bytes as a two-complement number.
DecodeSigned(f) ==
    LET top == f[Len(f)] IN
    DecodeUnsigned(SubSeq(f, 1, Len(f) - 1))
        + (IF top >= 128 THEN top - 256 ELSE top) * Pow256(Len(f) - 1)

(***************************************************************************)
(* C11.  An integer column of width w holds the value modulo 2^(8w),      *)
(* least significant byte first, so that a value in the range of the      *)
(* column type is recovered by little-endian decoding.  (Values are the   *)
(* 32-bit integers; for the 8-byte types the upper four bytes are the     *)
(* sign extension.)                                                        *)
(***************************************************************************)
C11_IntegersLittleEndian ==
    EncodedOk =>
       \A i \in DOMAIN encCall.format.columns :
          LET type == encCall.format.columns[i].type
              w == IntWidth(type)
              v == encCall.args[i]
              f == FieldOf(i)
          IN  w > 0 =>
                /\ Len(f) = w
                /\ \A k \in 1..w : f[k] \in 0..255
                /\ w <= 2 => DecodeUnsigned(f) = v % Pow256(w)
                /\ (w <= 2 /\ type \in SignedTypes
                      /\ v >= -(Pow256(w) \div 2) /\ v < Pow256(w) \div 2)
                      => DecodeSigned(f) = v
                /\ (w <= 2 /\ type \notin SignedTypes /\ v >= 0 /\ v < Pow256(w))
                      => DecodeUnsigned(f) = v
                /\ w = 4 => DecodeSigned(f) = v
                /\ w = 8 =>
                      /\ DecodeSigned(SubSeq(f, 1, 4)) = v
                      /\ \A k \in 5..8 : f[k] = IF v < 0 THEN 255 ELSE 0
                /\ (w = 4 /\ v = 195939070) => f = <<254, 202, 173, 11>>
                /\ (w = 4 /\ v = -559038737) => f = <<239, 190, 173, 222>>

\* 0xdeadbeef in a 16-bit column next to -1 in a 64-bit column.
C11_Witness ==
    /\ EncodedOk
    /\ Len(encCall.format.columns) = 2
    /\ encCall.format.columns[1].type = "H"
    /\ encCall.format.columns[2].type = "q"
    /\ encCall.args = <<-559038737, -1>>
    /\ FieldOf(1) = <<239, 190>>
    /\ FieldOf(2) = <<255, 255, 255, 255, 255, 255, 255, 255>>

(***************************************************************************)
(* C12.  A string column of width W holds exactly W bytes: the first      *)
(* min(len(s), W) bytes of s, then zero bytes; no terminator when         *)
(* len(s) >= W, and nothing is written outside the field.                 *)
(***************************************************************************)
StringWidth(type) ==
    CASE type = "n" -> 4 [] type = "N" -> 16 [] type = "Z" -> 64 [] OTHER -> 0

C12_StringsPaddedNotTerminated ==
    EncodedOk =>
       /\ \A i \in DOMAIN encCall.format.columns :
             LET W == StringWidth(encCall.format.columns[i].type)
                 s == encCall.args[i]
                 f == FieldOf(i)
             IN  W > 0 =>
                   /\ Len(f) = W
                   /\ \A k \in 1..W :
                         f[k] = IF k <= Len(s) THEN Ord(s[k]) ELSE 0
                   /\ Len(s) >= W => \A k \in 1..W : f[k] # 0
       /\ Len(encCall.result.buf) = 3 + SumSizes(encCall.format.columns,
                                                Len(encCall.format.columns))
       /\ SubSeq(encCall.result.buf, 1, 3) = <<163, 149, encCall.format.id>>

\* A 17-character string in a 16-byte field, followed by another column.
C12_Witness ==
    /\ EncodedOk
    /\ Len(encCall.format.columns) = 2
    /\ encCall.format.columns[1].type = "N"
    /\ encCall.format.columns[2].type = "B"
    /\ Len(encCall.args[1]) = 17
    /\ FieldOf(1) = Bytes(Alphabet(16))
    /\ FieldOf(2) = <<encCall.args[2] % 256>>

(***************************************************************************)
(* C13.  The Length byte of every FMT record the writer emits is the      *)
(* length of a record of the format with its header: the size of the      *)
(* format plus 3, the value of written when the format is encoded.        *)
(***************************************************************************)
\* The write calls that emitted a complete FMT record.
AnnouncingCalls ==
    {i \in WriteCalls : ~calls[i].announced0 /\ calls[i].bytes1 - calls[i].bytes0 >= 89}

C13_LengthByteIsRecordLength ==
    \A i \in AnnouncingCalls :
       /\ Appended(i)[5] = sdlog_message_format_get_size(Heap[calls[i].format]) + 3
       /\ calls[i].op = "write" /\ calls[i].ret = SDLOG_SUCCESS
             => Appended(i)[5] = Len(DataRecord(calls[i]))

(***************************************************************************)
(* C14.  Until sdlog_writer_destroy the private FMT format of the writer  *)
(* is the one sdlog_writer_init built and no call changes it: id 128,     *)
(* type FMT, columns Type(B), Length(B), Name(n), Format(N), Columns(Z)   *)
(* with unit '-', size 86; every FMT record is 89 bytes and starts with   *)
(* A3 95 80.                                                               *)
(***************************************************************************)
C14_FmtFormatUnchanged ==
    /\ ~destroyed =>
          /\ fmt_message_format.id = 128
          /\ fmt_message_format.type = <<"F", "M", "T">>
          /\ [i \in DOMAIN fmt_message_format.columns |->
                 <<fmt_message_format.columns[i].name,
                   fmt_message_format.columns[i].type,
                   fmt_message_format.columns[i].unit>>]
               = << <<(<<"T", "y", "p", "e">>), "B", "-">>,
                    <<(<<"L", "e", "n", "g", "t", "h">>), "B", "-">>,
                    <<(<<"N", "a", "m", "e">>), "n", "-">>,
                    <<(<<"F", "o", "r", "m", "a", "t">>), "N", "-">>,
                    <<(<<"C", "o", "l", "u", "m", "n", "s">>), "Z", "-">> >>
          /\ sdlog_message_format_get_size(fmt_message_format) = 86
    /\ \A i \in DOMAIN calls :
          calls[i].op # "destroy" => calls[i].fmt1 = calls[i].fmt0
    /\ \A i \in WriteCalls :
          (~calls[i].announced0 /\ calls[i].ret = SDLOG_SUCCESS) =>
             /\ Len(Appended(i)) = 89 + Len(DataRecord(calls[i]))
             /\ SubSeq(Appended(i), 1, 3) = <<163, 149, 128>>

\* An FMT record emitted in a second session, after end.
C14_Witness ==
    /\ Len(calls) = 3
    /\ calls[1].op = "write" /\ calls[1].ret = SDLOG_SUCCESS
    /\ calls[2].op = "end" /\ calls[2].ret = SDLOG_SUCCESS
    /\ IsWrite(calls[3]) /\ calls[3].ret = SDLOG_SUCCESS
    /\ ~calls[3].announced0
    /\ SubSeq(Appended(3), 1, 3) = <<163, 149, 128>>

(***************************************************************************)
(* What the claims about message formats speak of.                         *)
(***************************************************************************)
\* The wire size of a column type, from the table of the type codes.
WireSize(type) ==
    IF IntWidth(type) > 0 THEN IntWidth(type)
    ELSE IF StringWidth(type) > 0 THEN StringWidth(type)
    ELSE CASE type = "f" -> 4 [] type = "d" -> 8 [] type = "a" -> 64 [] OTHER -> 0

\* The sum of the wire sizes of the columns, as a number without a width.
ExactSize(columns) ==
    LET count(w) == Cardinality({i \in DOMAIN columns : WireSize(columns[i].type) = w})
    IN  count(1) + 2 * count(2) + 4 * count(4) + 8 * count(8)
          + 16 * count(16) + 64 * count(64)

IsAddCall == formatCall.op \in {"add_column", "add_columns"}

(***************************************************************************)
(* C15.  After any add_column and add_columns calls, failed ones too,     *)
(* sdlog_message_format_get_size is the sum of the wire sizes of the      *)
(* columns in the format, 0 for none, and the 16-bit sum does not wrap.   *)
(***************************************************************************)
C15_SizeIsSumOfColumnSizes ==
    /\ formatReady =>
          /\ sdlog_message_format_get_size(msgFormat) = ExactSize(msgFormat.columns)
          /\ ExactSize(msgFormat.columns) < 65536
          /\ Len(msgFormat.columns) <= UINT8_MAX
          /\ msgFormat.columns = <<>> => sdlog_message_format_get_size(msgFormat) = 0
    /\ formatCall.op = "get_size" =>
          formatCall.result = ExactSize(msgFormat.columns)
    /\ UINT8_MAX * 64 < 65536

\* The size of the largest format: every slot of the largest capacity
\* holds a 64-byte column.
C15_Witness ==
    /\ formatCall.op = "get_size"
    /\ Len(msgFormat.columns) = LargestCapacity(4)
    /\ formatCall.result = 64 * LargestCapacity(4)
    /\ formatCall.result > 256

(***************************************************************************)
(* C16.  sdlog_message_format_get_column_names asks for an allocation of  *)
(* the length of its result plus 1, for any number of columns, 0 too, and *)
(* any separator; it returns the names joined by the separator and        *)
(* writes nothing outside the allocation.                                  *)
(***************************************************************************)
C16_ColumnNamesAllocation ==
    formatCall.op = "get_column_names" =>
       LET joined == sdlog_message_format_get_column_names(msgFormat, formatCall.args.sep)
       IN  /\ formatCall.result.requested = Len(joined) + 1
           /\ formatCall.result.stored <= formatCall.result.requested
           /\ formatCall.args.heap = "ok" => formatCall.result.result = joined

(***************************************************************************)
(* C17.  sdlog_message_format_get_format_string returns a zero-terminated *)
(* string of as many characters as there are columns, the i-th being the  *)
(* type code of column i; sdlog_message_format_get_column returns column  *)
(* i for i below the column count and NULL for every other i.             *)
(***************************************************************************)
C17_FormatStringAndGetColumn ==
    /\ (formatCall.op = "get_format_string" /\ formatCall.args.heap = "ok") =>
          /\ formatCall.result.requested = Len(msgFormat.columns) + 1
          /\ Len(formatCall.result.result) = Len(msgFormat.columns)
          /\ \A i \in DOMAIN msgFormat.columns :
                formatCall.result.result[i] = msgFormat.columns[i].type
    /\ formatCall.op = "get_column" =>
          IF formatCall.args.index < Len(msgFormat.columns)
          THEN /\ ~formatCall.result.null
               /\ formatCall.result.slot = formatCall.args.index
               /\ formatCall.result.slot + 1 \in DOMAIN msgFormat.columns
          ELSE formatCall.result.null

\* The index just after the last column of a format that has columns.
C17_Witness ==
    /\ formatCall.op = "get_column"
    /\ Len(msgFormat.columns) = 5
    /\ formatCall.args.index = 5
    /\ formatCall.result.null

(***************************************************************************)
(* C18.  A successful add_column or add_columns leaves a format whose     *)
(* record, header included, is at most SDLOG_MAX_MESSAGE_LENGTH bytes     *)
(* long, so an encoded record fits the 256 bytes of the writer's buffer.  *)
(***************************************************************************)
C18_RecordFitsTheBuffer ==
    (IsAddCall /\ formatCall.ret = SDLOG_SUCCESS) =>
       sdlog_message_format_get_size(formatCall.after) + 3 <= SDLOG_MAX_MESSAGE_LENGTH

(***************************************************************************)
(* C19.  sdlog_message_format_add_column with a type code of size 0       *)
(* returns SDLOG_EINVAL, and an add_column that fails leaves the columns  *)
(* of the format, and so their count, as they were.                       *)
(***************************************************************************)
C19_FailedAddColumnChangesNothing ==
    formatCall.op = "add_column" =>
       /\ WireSize(formatCall.args.type) = 0 => formatCall.ret = SDLOG_EINVAL
       /\ formatCall.ret \in {SDLOG_EINVAL, SDLOG_ELIMIT} =>
             formatCall.after = formatCall.before
       /\ formatCall.ret # SDLOG_SUCCESS =>
             formatCall.after.columns = formatCall.before.columns
       /\ formatCall.ret = SDLOG_SUCCESS =>
             Len(formatCall.after.columns) = Len(formatCall.before.columns) + 1

\* A column refused because the capacity cannot grow any more.
C19_Witness ==
    /\ formatCall.op = "add_column"
    /\ formatCall.ret = SDLOG_ELIMIT
    /\ Len(formatCall.before.columns) = LargestCapacity(4)
    /\ formatCall.after = formatCall.before

(***************************************************************************)
(* C20.  sdlog_message_format_init returns SDLOG_EINVAL for a type name   *)
(* of more than 4 characters and leaves the object as it was; for a name  *)
(* of 0..4 characters it succeeds (when its allocation does) with no      *)
(* columns, capacity 4, the id given and the name zero-padded in the      *)
(* 5-byte field.                                                           *)
(***************************************************************************)
C20_InitChecksTheTypeName ==
    formatCall.op = "init" =>
       /\ Len(formatCall.args.type) > 4 =>
             /\ formatCall.ret = SDLOG_EINVAL
             /\ formatCall.after = formatCall.before
       /\ (Len(formatCall.args.type) <= 4 /\ formatCall.args.alloc) =>
             /\ formatCall.ret = SDLOG_SUCCESS
             /\ formatCall.after.columns = <<>>
             /\ formatCall.after.num_alloc_columns = 4
             /\ formatCall.after.id = formatCall.args.id
             /\ formatCall.after.type = formatCall.args.type
             /\ formatCall.after.type_field = PadTo(Bytes(formatCall.args.type), 5)
             /\ formatCall.after.type_field[5] = 0

\* A name that fills the four characters.
C20_Witness ==
    /\ formatCall.op = "init"
    /\ Len(formatCall.args.type) = 4
    /\ formatCall.ret = SDLOG_SUCCESS
    /\ formatCall.after.type_field = <<65, 66, 67, 68, 0>>
    /\ formatReady

(***************************************************************************)
(* C21.  sdlog_message_format_encode fails at the first column, in column *)
(* order, whose type is not an implemented one: with SDLOG_UNIMPLEMENTED  *)
(* when it is 'a', with SDLOG_EINVAL when its code is outside the closed  *)
(* set, in both cases without setting *written.  So a format whose type   *)
(* codes all belong to the closed set (the formats add_column builds) and *)
(* that has an 'a' column at any position gives SDLOG_UNIMPLEMENTED.      *)
(***************************************************************************)
\* The columns of the last encoder call that the encoder does not implement.
Unencodable ==
    {i \in DOMAIN encCall.format.columns :
        encCall.format.columns[i].type \notin ImplementedTypes}

FirstUnencodable == CHOOSE i \in Unencodable : \A j \in Unencodable : i <= j

C21_ArrayColumnsUnimplemented ==
    encCall.called =>
       LET M == encCall.format IN
       /\ Unencodable = {} => encCall.result.ret = SDLOG_SUCCESS
       /\ Unencodable # {} =>
             /\ ~encCall.result.written_set
             /\ encCall.result.ret =
                   IF M.columns[FirstUnencodable].type = "a"
                   THEN SDLOG_UNIMPLEMENTED ELSE SDLOG_EINVAL
       /\ ((\A i \in DOMAIN M.columns : WireSize(M.columns[i].type) > 0)
             /\ \E i \in DOMAIN M.columns : M.columns[i].type = "a")
             => encCall.result.ret = SDLOG_UNIMPLEMENTED
       /\ (\E i \in DOMAIN M.columns : WireSize(M.columns[i].type) = 0)
             /\ (\A i \in DOMAIN M.columns : M.columns[i].type # "a")
             => encCall.result.ret = SDLOG_EINVAL

\* An 'a' column after an implemented one.
C21_Witness ==
    /\ encCall.called
    /\ Len(encCall.format.columns) = 2
    /\ encCall.format.columns[1].type = "H"
    /\ encCall.format.columns[2].type = "a"
    /\ encCall.result.ret = SDLOG_UNIMPLEMENTED
    /\ ~encCall.result.written_set

(***************************************************************************)
(* C22.  A message format holds at most as many columns as its capacity,  *)
(* and the capacity is one of 4, 8, 16, 32, 48, 64, ..., 240: these are   *)
(* the values add_column grows it through.  The add_column call that      *)
(* would need a larger capacity returns SDLOG_ELIMIT and leaves count and *)
(* capacity as they were, so no format holds more than 240 columns.       *)
(***************************************************************************)
Capacities == {4, 8, 16} \cup {32 + 16 * k : k \in 0..13}

RECURSIVE CapacityChain(_)
\* The capacities add_column reaches from capacity c.
CapacityChain(c) ==
    {c} \cup (IF new_size(c) > UINT8_MAX THEN {} ELSE CapacityChain(new_size(c)))

C22_CapacityGrowth ==
    /\ formatReady =>
          /\ Len(msgFormat.columns) <= msgFormat.num_alloc_columns
          /\ msgFormat.num_alloc_columns <= 255
          /\ msgFormat.num_alloc_columns \in Capacities
          /\ Len(msgFormat.columns) <= 240
    /\ CapacityChain(4) = Capacities
    /\ formatCall.op = "add_column" =>
          /\ formatCall.ret = SDLOG_ELIMIT =>
                /\ Len(formatCall.before.columns) = 240
                /\ formatCall.before.num_alloc_columns = 240
                /\ formatCall.after = formatCall.before
          /\ (Len(formatCall.before.columns) = 240 /\ WireSize(formatCall.args.type) > 0)
                => formatCall.ret = SDLOG_ELIMIT
    /\ IsAddCall =>
          /\ formatCall.after.num_alloc_columns >= formatCall.before.num_alloc_columns
          /\ formatCall.after.num_alloc_columns \in
                CapacityChain(formatCall.before.num_alloc_columns)

\* The capacity grown from 8 to 16 by a call that added the ninth column.
C22_Witness ==
    /\ IsAddCall
    /\ formatCall.before.num_alloc_columns = 8
    /\ formatCall.after.num_alloc_columns = 16
    /\ Len(formatCall.before.columns) <= 8
    /\ Len(formatCall.after.columns) > 8
    /\ msgFormat = formatCall.after

(***************************************************************************)
(* What the claims about sdlog_message_format_add_columns speak of.       *)
(***************************************************************************)
\* The positions of the commas of names.
Commas(names) == {k \in DOMAIN names : names[k] = ","}

\* The position of the j-th comma of names.
NthComma(names, j) ==
    CHOOSE k \in Commas(names) : Cardinality({m \in Commas(names) : m <= k}) = j

\* The i-th comma-separated entry of names; the empty string when names
\* has fewer entries.
EntryName(names, i) ==
    IF i > Cardinality(Commas(names)) + 1 THEN <<>>
    ELSE SubSeq(names,
                IF i = 1 THEN 1 ELSE NthComma(names, i - 1) + 1,
                IF i <= Cardinality(Commas(names)) THEN NthComma(names, i) - 1
                ELSE Len(names))

\* The column that add_columns(names, types, units) is to append as its
\* i-th one.
ExpectedColumn(names, types, units, i) ==
    [name |-> EntryName(names, i), type |-> types[i],
     unit |-> IF i <= Len(units) THEN units[i] ELSE "-"]

IsAddColumns == formatCall.op = "add_columns"

\* The number of columns the last call appended.
ColumnsAppended == Len(formatCall.after.columns) - Len(formatCall.before.columns)

(***************************************************************************)
(* C23.  When add_columns fails, either it added no column (the count     *)
(* plus strlen(types) exceeds 255: SDLOG_ELIMIT; the copy of names cannot *)
(* be allocated: SDLOG_ENOMEM), or the columns before the failing one,    *)
(* and only these, were appended and stay in the format; the error is     *)
(* that of the failing add_column.                                         *)
(***************************************************************************)
C23_AddColumnsFailureKeepsPrefix ==
    (IsAddColumns /\ formatCall.ret # SDLOG_SUCCESS) =>
       LET a == formatCall.args
           k == ColumnsAppended
           upfront == Len(formatCall.before.columns) + Len(a.types) > 255
       IN  /\ upfront => formatCall.ret = SDLOG_ELIMIT /\ formatCall.after = formatCall.before
           /\ (~upfront /\ a.env.fail = "names_dup") =>
                 formatCall.ret = SDLOG_ENOMEM /\ formatCall.after = formatCall.before
           /\ k >= 0 /\ k < Len(a.types)
           /\ formatCall.after.columns =
                 formatCall.before.columns
                    \o [i \in 1..k |-> ExpectedColumn(a.names, a.types, a.units, i)]
           /\ msgFormat = formatCall.after
           /\ (~upfront /\ a.env.fail # "names_dup") =>
                 /\ \A i \in 1..k : WireSize(a.types[i]) > 0
                 /\ formatCall.ret \in {SDLOG_EINVAL, SDLOG_ELIMIT, SDLOG_ENOMEM}
                 /\ formatCall.ret = SDLOG_EINVAL <=> WireSize(a.types[k + 1]) = 0
                 /\ formatCall.ret = SDLOG_ELIMIT =>
                       Len(formatCall.after.columns) = formatCall.after.num_alloc_columns
                 /\ formatCall.ret = SDLOG_ENOMEM => a.env.at = k + 1

\* The third column of five could not be allocated: two were added.
C23_Witness ==
    /\ IsAddColumns
    /\ formatCall.ret = SDLOG_ENOMEM
    /\ Len(formatCall.args.types) = 5
    /\ ColumnsAppended = 2
    /\ formatCall.after.columns[Len(formatCall.after.columns)].name
          = <<"L", "e", "n", "g", "t", "h">>

RECURSIVE NamePtrAt(_, _)
\* name_ptr, as a position of names_dup, when the loop of add_columns
\* starts on its i-th column.
NamePtrAt(names, i) ==
    IF i = 1 THEN 1
    ELSE LET name_end == NameEnd(names, NamePtrAt(names, i - 1))
         IN  NextNamePtr(name_end, name_end = Len(names) + 1)

(***************************************************************************)
(* C24.  A successful add_columns appends exactly strlen(types) columns;  *)
(* column i has type types[i] and is named by the i-th comma-separated    *)
(* entry of names.  When names has fewer entries, the scan stays on the   *)
(* terminator once it reached it, never reads past it, and the columns    *)
(* left are named by the empty string; names in surplus are ignored.      *)
(***************************************************************************)
C24_AddColumnsNamesAndTypes ==
    (IsAddColumns /\ formatCall.ret = SDLOG_SUCCESS) =>
       LET a == formatCall.args
           n0 == Len(formatCall.before.columns)
           entries == Cardinality(Commas(a.names)) + 1
       IN  /\ ColumnsAppended = Len(a.types)
           /\ SubSeq(formatCall.after.columns, 1, n0) = formatCall.before.columns
           /\ \A i \in 1..Len(a.types) :
                 /\ formatCall.after.columns[n0 + i].type = a.types[i]
                 /\ formatCall.after.columns[n0 + i].name = EntryName(a.names, i)
                 /\ i > entries => formatCall.after.columns[n0 + i].name = <<>>
                 /\ "," \notin {formatCall.after.columns[n0 + i].name[j] :
                                  j \in DOMAIN formatCall.after.columns[n0 + i].name}
                 /\ NamePtrAt(a.names, i) <= Len(a.names) + 1
                 /\ i > entries => NamePtrAt(a.names, i) = Len(a.names) + 1
           /\ NamePtrAt(a.names, Len(a.types) + 1) <= Len(a.names) + 1

\* Four columns for the names "a,,b": a, the empty second entry, b, and
\* the empty string for the column without an entry.
C24_Witness ==
    /\ IsAddColumns
    /\ formatCall.ret = SDLOG_SUCCESS
    /\ formatCall.args.names = <<"a", ",", ",", "b">>
    /\ Len(formatCall.args.types) = 4
    /\ LET n0 == Len(formatCall.before.columns) IN
       [i \in 1..4 |-> formatCall.after.columns[n0 + i].name]
          = << <<"a">>, <<>>, <<"b">>, <<>> >>

RECURSIVE UnitPtrAt(_, _)
\* unit_ptr, as a position of units, when the loop of add_columns starts
\* on its i-th column.
UnitPtrAt(units, i) ==
    IF i = 1 THEN 1 ELSE NextUnitPtr(units, UnitPtrAt(units, i - 1))

(***************************************************************************)
(* C25.  Column i of an add_columns call gets the unit units[i] when      *)
(* units has an i-th character and '-' otherwise, in the columns a        *)
(* failing call leaves too; units is never read past its terminator.      *)
(***************************************************************************)
C25_AddColumnsUnits ==
    IsAddColumns =>
       LET a == formatCall.args
           n0 == Len(formatCall.before.columns)
       IN  /\ \A i \in 1..ColumnsAppended :
                 /\ i <= Len(a.units) =>
                       formatCall.after.columns[n0 + i].unit = a.units[i]
                 /\ i > Len(a.units) => formatCall.after.columns[n0 + i].unit = "-"
           /\ \A i \in 1..(Len(a.types) + 1) :
                 /\ UnitPtrAt(a.units, i) <= Len(a.units) + 1
                 /\ UnitPtrAt(a.units, i) = Min(i, Len(a.units) + 1)

\* Four columns for the units "sm": s, m, and '-' twice.
C25_Witness ==
    /\ IsAddColumns
    /\ formatCall.ret = SDLOG_SUCCESS
    /\ formatCall.args.units = <<"s", "m">>
    /\ LET n0 == Len(formatCall.before.columns) IN
       [i \in 1..4 |-> formatCall.after.columns[n0 + i].unit] = <<"s", "m", "-", "-">>

(***************************************************************************)
(* C26.  Every block the writer allocated (its buffer, the column array   *)
(* and the column names of its FMT format, the format string and the      *)
(* column names string of write_format) is freed exactly once by the time *)
(* sdlog_writer_destroy returns; write_format frees its two strings on    *)
(* every path; and when sdlog_writer_init returns an error, no block it   *)
(* allocated is left allocated.                                            *)
(***************************************************************************)
\* No block of the writer is allocated.
NothingLive(h) == \A k \in WriterBlocks : h.live[k] = 0

C26_WriterFreesWhatItAllocates ==
    /\ blocks.bad_free = 0
    /\ destroyed => NothingLive(blocks)
    /\ \A i \in DOMAIN calls :
          /\ calls[i].heap1.live["format_str"] = 0
          /\ calls[i].heap1.live["column_names"] = 0
    /\ (Initialized /\ ~destroyed) =>
          /\ blocks.live["buf"] = 1
          /\ blocks.live["columns"] = 1
          /\ blocks.live["name"] = 5
    /\ (initCall.called /\ initCall.ret # SDLOG_SUCCESS) => NothingLive(blocks)

(***************************************************************************)
(* C27.  No call on the writer (init, write, write_encoded, flush, end,   *)
(* destroy) changes or frees a message format of the caller or the stream *)
(* object: the caller's formats are the same objects after every call,    *)
(* their blocks and the stream's stay allocated, and after                 *)
(* sdlog_writer_destroy the caller still owns its formats and the stream  *)
(* with the bytes it accepted.                                             *)
(***************************************************************************)
CallerOwns(h) ==
    \A k \in CallerBlocks : h.live[k] = CallerHeap.live[k]

C27_CallerKeepsFormatsAndStream ==
    /\ objects = Heap
    /\ CallerOwns(blocks)
    /\ \A i \in DOMAIN calls :
          /\ calls[i].objects1 = calls[i].objects0
          /\ calls[i].objects0 = Heap
          /\ CallerOwns(calls[i].heap0) /\ CallerOwns(calls[i].heap1)
          /\ calls[i].op \in {"flush", "end", "destroy"} =>
                calls[i].bytes1 = calls[i].bytes0
    /\ destroyed =>
          /\ \A i \in Ids : formats[i] = NULL
          /\ Len(streamBytes) = calls[Len(calls)].bytes0

\* The writer destroyed while it had two formats recorded as announced
\* and records in the stream.
C27_Witness ==
    /\ destroyed
    /\ \A i \in Ids : calls[Len(calls)].formats0[i] # NULL
    /\ Len(streamBytes) > 2 * 89
    /\ objects = Heap
    /\ CallerOwns(blocks)
    /\ NothingLive(blocks)

(***************************************************************************)
(* Direct calls on streams: sdlog_ostream_write_all on a stream whose     *)
(* write method answers as a script tells, writes, flushes and            *)
(* sdlog_ostream_buffer_get on a buffer output stream, and reads on a     *)
(* buffer input stream.                                                    *)
(***************************************************************************)
\* The number of calls made on the streams.
MaxStreamCalls == 4

\* n bytes that differ from their neighbours.
Payload(n, from) == [i \in 1..n |-> (from + i) % 256]

\* What a write method may answer: it takes 0, 1, 2 or all of the bytes it
\* is offered, reports more than it was offered, or fails.
Answers ==
    {[ret |-> SDLOG_SUCCESS, k |-> k, over |-> FALSE] : k \in {0, 1, 2, MaxChunk}}
    \cup {[ret |-> SDLOG_SUCCESS, k |-> k, over |-> TRUE] : k \in {0, MaxChunk}}
    \cup {[ret |-> SDLOG_EWRITE, k |-> 0, over |-> FALSE],
          [ret |-> SDLOG_EIO, k |-> 1, over |-> FALSE]}

Scripts ==
    {<<>>} \cup {<<a>> : a \in Answers} \cup {<<a, b>> : a, b \in Answers}

WriteAllInputs == {Payload(n, 0) : n \in {0, 1, 3}}

WriteInputs == {Payload(n, from) : n \in {0, 1, 20, 40}, from \in {0, 100}}

ReadInputs == {Payload(0, 0), Payload(3, 0), Payload(20, 48)}

ReadLengths == {1, 2, 20}

CanCallStream == ioCall.n < MaxStreamCalls

\* sdlog_ostream_write_all(&stream, data, Len(data)) on a stream that has
\* accepted nothing yet; every answer of the script is given.
WriteAll(data, script) ==
    /\ CanCallStream
    /\ \E r \in {sdlog_ostream_write_all(
                    Current, data, [NoFault EXCEPT !.script = script])} :
          /\ Len(r.st.log) >= Len(script)
          /\ ioCall' = [op |-> "write_all", n |-> ioCall.n + 1, data |-> data,
                        script |-> script, ret |-> r.ret,
                        accepted |-> r.st.bytes, log |-> r.st.log]
    /\ UNCHANGED <<writerVars, encCall, formatVars, ostream, wrote, istream, delivered,
                   fp, loop, errCall, columnCall>>

\* sdlog_ostream_write(&stream, data, Len(data), &written) on the buffer
\* stream.
BufferWrite(data, growfail) ==
    /\ CanCallStream
    /\ \E r \in {BufferOStreamWrite(ostream, data, growfail)} :
          /\ growfail # 0 => r.ret = SDLOG_ENOMEM
          /\ ostream' = r.ctx
          /\ wrote' = IF r.ret = SDLOG_SUCCESS THEN wrote \o data ELSE wrote
          /\ ioCall' = [op |-> "write", n |-> ioCall.n + 1, data |-> data,
                        ret |-> r.ret, written |-> r.written,
                        written_set |-> r.written_set, before |-> ostream]
    /\ UNCHANGED <<writerVars, encCall, formatVars, istream, delivered,
                   fp, loop, errCall, columnCall>>

BufferFlush ==
    /\ CanCallStream
    /\ \E r \in {BufferOStreamFlush(ostream)} :
          /\ ostream' = r.ctx
          /\ ioCall' = [op |-> "flush", n |-> ioCall.n + 1, ret |-> r.ret,
                        before |-> ostream]
    /\ UNCHANGED <<writerVars, encCall, formatVars, wrote, istream, delivered,
                   fp, loop, errCall, columnCall>>

BufferGet ==
    /\ CanCallStream
    /\ \E r \in {sdlog_ostream_buffer_get(ostream)} :
          ioCall' = [op |-> "get", n |-> ioCall.n + 1,
                     data |-> SubSeq(r.data, 1, r.size), size |-> r.size]
    /\ UNCHANGED <<writerVars, encCall, formatVars, ostream, wrote, istream, delivered,
                   fp, loop, errCall, columnCall>>

\* The read method of the buffer input stream, with a buffer of length
\* bytes.
BufferRead(length) ==
    /\ CanCallStream
    /\ \E r \in {buffer_read(istream, length)} :
          /\ istream' = r.ctx
          /\ delivered' = delivered \o r.bytes
          /\ ioCall' = [op |-> "read", n |-> ioCall.n + 1, length |-> length,
                        ret |-> r.ret, read |-> r.read, bytes |-> r.bytes,
                        before |-> istream]
    /\ UNCHANGED <<writerVars, encCall, formatVars, ostream, wrote,
                   fp, loop, errCall, columnCall>>

\* A writer, a fresh buffer output stream and a buffer input stream over
\* the caller's bytes.
InitStream ==
    /\ InitializedWriter
    /\ encCall = NoEncCall
    /\ NoFormatObject
    /\ ostream = sdlog_ostream_init_buffer
    /\ wrote = <<>>
    /\ \E data \in ReadInputs : istream = sdlog_istream_init_buffer(data)
    /\ delivered = <<>>
    /\ ioCall = NoStreamCall
    /\ NoFileCalls

NextStream ==
    \/ \E data \in WriteAllInputs : \E script \in Scripts : WriteAll(data, script)
    \/ \E data \in WriteInputs : \E growfail \in 0..2 : BufferWrite(data, growfail)
    \/ BufferFlush
    \/ BufferGet
    \/ \E length \in ReadLengths : BufferRead(length)

SpecStream == InitStream /\ [][NextStream]_vars

(***************************************************************************)
(* C28.  On a stream whose write method takes any number of the bytes it  *)
(* is offered, sdlog_ostream_write_all returns SDLOG_SUCCESS only when    *)
(* the stream has accepted exactly the bytes of data, in order and each   *)
(* once; an error of a write call is returned at once, with no further    *)
(* write call, and a reported count larger than the remaining length      *)
(* gives SDLOG_EWRITE, again with no further write call.                   *)
(***************************************************************************)
RECURSIVE Reported(_, _)
\* The sum of the counts the first i write calls of a log reported.
Reported(log, i) == IF i = 0 THEN 0 ELSE Reported(log, i - 1) + log[i].n

\* The length write_all still had to write when it made write call i.
RemainingAt(c, i) == Len(c.data) - Reported(c.log, i - 1)

C28_WriteAllWritesEverything ==
    ioCall.op = "write_all" =>
        /\ ioCall.ret = SDLOG_SUCCESS => ioCall.accepted = ioCall.data
        /\ \A i \in DOMAIN ioCall.log :
              /\ ioCall.log[i].op = "write"
              /\ RemainingAt(ioCall, i) > 0
              /\ ioCall.log[i].ret # SDLOG_SUCCESS =>
                    i = Len(ioCall.log) /\ ioCall.ret = ioCall.log[i].ret
              /\ (ioCall.log[i].ret = SDLOG_SUCCESS
                    /\ ioCall.log[i].n > RemainingAt(ioCall, i)) =>
                    i = Len(ioCall.log) /\ ioCall.ret = SDLOG_EWRITE

\* Three bytes written in three write calls, of which the first took no
\* byte and the second took one.
C28_Witness ==
    /\ ioCall.op = "write_all"
    /\ ioCall.ret = SDLOG_SUCCESS
    /\ Len(ioCall.data) = 3
    /\ Len(ioCall.log) = 3
    /\ ioCall.log[1].n = 0 /\ ioCall.log[2].n = 1
    /\ ioCall.accepted = ioCall.data

(***************************************************************************)
(* C29.  After any sequence of writes and flushes on a buffer output      *)
(* stream, sdlog_ostream_buffer_get returns the bytes of the successful   *)
(* writes, concatenated in order, and their number; in every state        *)
(* data <= end <= alloc_end, the capacity is 16 * 2^k for some k, and a   *)
(* flush succeeds without changing the stream.                             *)
(***************************************************************************)
\* The bytes sdlog_ostream_buffer_get exposes: size bytes from the pointer
\* it returns.
BufferContent(ctx) ==
    SubSeq(sdlog_ostream_buffer_get(ctx).data, 1, sdlog_ostream_buffer_get(ctx).size)

C29_BufferHoldsWhatWasWritten ==
    /\ BufferContent(ostream) = wrote
    /\ sdlog_ostream_buffer_get(ostream).size = Len(wrote)
    /\ 0 <= ostream.end /\ ostream.end <= ostream.alloc_end
    /\ Len(ostream.mem) = ostream.alloc_end
    /\ \E k \in 0..8 : ostream.alloc_end = BufferInitialSize * 2^k
    /\ ioCall.op = "flush" => ioCall.ret = SDLOG_SUCCESS /\ ostream = ioCall.before
    /\ ioCall.op = "get" => ioCall.data = wrote /\ ioCall.size = Len(wrote)
    /\ ioCall.op = "write" =>
          IF ioCall.ret = SDLOG_SUCCESS
          THEN /\ ioCall.written_set /\ ioCall.written = Len(ioCall.data)
               /\ BufferContent(ostream) = BufferContent(ioCall.before) \o ioCall.data
          ELSE BufferContent(ostream) = BufferContent(ioCall.before)

\* The test's buffer: 60 bytes written in three writes of 20 bytes, read
\* back from a block of 64 bytes.
C29_Witness ==
    /\ ioCall.op = "get"
    /\ ioCall.n = 4
    /\ ioCall.size = 60
    /\ ioCall.data = wrote
    /\ ostream.alloc_end = 64

(***************************************************************************)
(* C30.  The reads on a buffer input stream deliver the bytes of its data *)
(* in order, each byte once: a read of length n > 0 with r > 0 bytes      *)
(* remaining returns SDLOG_SUCCESS with min(n, r) bytes, the next ones,   *)
(* and advances by that number; a read with no byte remaining returns     *)
(* SDLOG_EOF with 0 bytes and leaves the stream as it is; the read        *)
(* position never passes the end.                                          *)
(***************************************************************************)
\* The bytes between ctx->read_ptr and ctx->end.
Unread(ctx) == SubSeq(ctx.data, ctx.read_ptr + 1, ctx.end)

C30_BufferReadsInOrder ==
    /\ 0 <= istream.read_ptr /\ istream.read_ptr <= istream.end
    /\ istream.end = Len(istream.data)
    /\ delivered \o Unread(istream) = istream.data
    /\ ioCall.op = "read" =>
          /\ istream.data = ioCall.before.data
          /\ IF Len(Unread(ioCall.before)) > 0
             THEN /\ ioCall.ret = SDLOG_SUCCESS
                  /\ ioCall.read = Min(ioCall.length, Len(Unread(ioCall.before)))
                  /\ ioCall.bytes = SubSeq(Unread(ioCall.before), 1, ioCall.read)
                  /\ istream.read_ptr = ioCall.before.read_ptr + ioCall.read
             ELSE /\ ioCall.ret = SDLOG_EOF
                  /\ ioCall.read = 0
                  /\ ioCall.bytes = <<>>
                  /\ istream = ioCall.before

\* A read of 20 bytes when 18 of the 20 bytes remain: it delivers the 18
\* bytes and reaches the end.
C30_Witness ==
    /\ ioCall.op = "read"
    /\ ioCall.length = 20
    /\ ioCall.before.read_ptr = 2
    /\ ioCall.ret = SDLOG_SUCCESS
    /\ ioCall.read = 18
    /\ istream.read_ptr = istream.end
    /\ delivered = istream.data

(***************************************************************************)
(* File input streams (file.c).  A FILE is [data, pos, eof, error]: the   *)
(* bytes of the file, the position, and the end-of-file and error         *)
(* indicators, which stay set once set.                                    *)
(***************************************************************************)
\* fread(data, 1, length, fp): the device fails after `after` bytes of
\* this call when fault.fails; otherwise it delivers the bytes that are
\* left, and sets the end-of-file indicator when they are fewer than asked.
fread(file, length, fault) ==
    LET left == Len(file.data) - file.pos
        n == IF fault.fails THEN Min(fault.after, Min(length - 1, left))
             ELSE Min(length, left)
    IN  [n |-> n,
         bytes |-> SubSeq(file.data, file.pos + 1, file.pos + n),
         fp |-> [file EXCEPT !.pos = @ + n,
                             !.error = @ \/ fault.fails,
                             !.eof = @ \/ (~fault.fails /\ n < length)]]

ferror(file) == file.error

feof(file) == file.eof

\* A file_read that reports the end of the file as soon as the indicator
\* is set.
file_read_EofWithBytes(file, length, fault) ==
    LET r == fread(file, length, fault)
        ret == IF r.n < length
               THEN IF ferror(r.fp) THEN SDLOG_EREAD
                    ELSE IF feof(r.fp) THEN SDLOG_EOF
                    ELSE SDLOG_SUCCESS
               ELSE SDLOG_SUCCESS
    IN  [ret |-> ret, read |-> r.n, bytes |-> r.bytes, fp |-> r.fp]

\* The read method of a file stream.
file_read(file, length, fault) ==
    LET r == fread(file, length, fault)
        ret == IF r.n < length
               THEN IF ferror(r.fp) THEN SDLOG_EREAD
                    ELSE IF r.n = 0 /\ feof(r.fp) THEN SDLOG_EOF
                    ELSE SDLOG_SUCCESS
               ELSE SDLOG_SUCCESS
    IN  [ret |-> ret, read |-> r.n, bytes |-> r.bytes, fp |-> r.fp]

\* What the device does during one fread.
NoReadFault == [fails |-> FALSE, after |-> 0]

ReadFaults == {NoReadFault} \cup {[fails |-> TRUE, after |-> k] : k \in {0, 1}}

FileRead(length, fault) ==
    /\ CanCallStream
    /\ \E r \in {file_read(fp, length, fault)} :
          /\ fp' = r.fp
          /\ ioCall' = [op |-> "file_read", n |-> ioCall.n + 1, length |-> length,
                        fault |-> fault, ret |-> r.ret, read |-> r.read,
                        bytes |-> r.bytes, before |-> fp]
    /\ UNCHANGED <<writerVars, encCall, formatVars, ostream, wrote, istream, delivered,
                   loop, errCall, columnCall>>

\* A file input stream over a file that holds the caller's bytes.
InitFile ==
    /\ InitializedWriter
    /\ encCall = NoEncCall
    /\ NoFormatObject
    /\ ostream = sdlog_ostream_init_buffer
    /\ wrote = <<>>
    /\ istream = sdlog_istream_init_buffer(<<>>)
    /\ delivered = <<>>
    /\ ioCall = NoStreamCall
    /\ \E data \in ReadInputs : fp = fopen(data)
    /\ loop = NoWriteAll
    /\ errCall = NoErrCall
    /\ columnCall = NoColumnCall

NextFile == \E length \in ReadLengths : \E fault \in ReadFaults : FileRead(length, fault)

SpecFile == InitFile /\ [][NextFile]_vars

(***************************************************************************)
(* C31.  The read of a file input stream returns SDLOG_EOF only when it   *)
(* read no byte and the file is at its end; a short read that delivered   *)
(* at least one byte, with no error indicator set, returns SDLOG_SUCCESS  *)
(* even when the end of the file was reached, and the next read returns   *)
(* SDLOG_EOF; a short read with the error indicator of the file set       *)
(* returns SDLOG_EREAD.                                                     *)
(***************************************************************************)
C31_FileReadEofOnlyWithoutBytes ==
    ioCall.op = "file_read" =>
        /\ ioCall.ret \in {SDLOG_SUCCESS, SDLOG_EOF, SDLOG_EREAD}
        /\ ioCall.ret = SDLOG_EOF =>
              /\ ioCall.read = 0
              /\ feof(fp) /\ fp.pos = Len(fp.data)
        /\ (ioCall.read < ioCall.length /\ ioCall.read >= 1 /\ ~ferror(fp)) =>
              ioCall.ret = SDLOG_SUCCESS /\ feof(fp)
        /\ (feof(ioCall.before) /\ ~ferror(fp)) =>
              ioCall.ret = SDLOG_EOF /\ ioCall.read = 0
        /\ (ioCall.read < ioCall.length /\ ferror(fp)) => ioCall.ret = SDLOG_EREAD
        /\ ioCall.read = ioCall.length => ioCall.ret = SDLOG_SUCCESS
        /\ ioCall.bytes = SubSeq(fp.data, ioCall.before.pos + 1, fp.pos)
        /\ Len(ioCall.bytes) = ioCall.read

\* The end of the file reported by the read that follows a short read of
\* the last 18 of 20 bytes.
C31_Witness ==
    /\ ioCall.op = "file_read"
    /\ ioCall.n = 3
    /\ ioCall.ret = SDLOG_EOF
    /\ ioCall.read = 0
    /\ Len(fp.data) = 20
    /\ feof(ioCall.before) /\ ioCall.before.pos = 20
    /\ ~ferror(fp)

(***************************************************************************)
(* Error messages (error.c).                                               *)
(***************************************************************************)
\* The codes handed to sdlog_error_to_string are -MaxErrorCode..MaxErrorCode.
MaxErrorCode == 30

\* The table of error.c; the message of code c is at index c + 1.
sdlog_i_error_messages ==
    <<"No error", "Unspecified failure", "Not enough memory", "Invalid value">>

sdlog_error_to_string(code) ==
    IF code >= 0 /\ code < Len(sdlog_i_error_messages)
    THEN sdlog_i_error_messages[code + 1]
    ELSE sdlog_i_error_messages[SDLOG_FAILURE + 1]

\* The messages of the ten error codes, in the order of the enumeration, as
\* the documentation of the library lists them.
DocumentedMessages ==
    <<"No error", "Unspecified failure", "Not enough memory", "Invalid value",
      "Limit exceeded", "Read error", "Write error", "Generic I/O error",
      "Unimplemented function call", "End of file">>

ErrorToString ==
    /\ ~errCall.called
    /\ errCall' = [called |-> TRUE, code |-> errCall.code,
                   result |-> sdlog_error_to_string(errCall.code)]
    /\ UNCHANGED <<writerVars, encCall, formatVars, streamVars, columnCall>>

InitError ==
    /\ InitializedWriter
    /\ encCall = NoEncCall
    /\ NoFormatObject
    /\ ostream = sdlog_ostream_init_buffer
    /\ wrote = <<>>
    /\ istream = sdlog_istream_init_buffer(<<>>)
    /\ delivered = <<>>
    /\ ioCall = NoStreamCall
    /\ fp = fopen(<<>>)
    /\ loop = NoWriteAll
    /\ \E code \in -MaxErrorCode..MaxErrorCode :
          errCall = [called |-> FALSE, code |-> code]
    /\ columnCall = NoColumnCall

NextError == ErrorToString

SpecError == InitError /\ [][NextError]_vars

(***************************************************************************)
(* C32.  sdlog_error_to_string is total: for each code 0..9 it returns    *)
(* the message of the error at that position of the enumeration, ten      *)
(* distinct messages, and for every other code, negative ones included,   *)
(* the message of SDLOG_FAILURE.                                           *)
(***************************************************************************)
C32_ErrorToStringTotal ==
    /\ \A i, j \in DOMAIN DocumentedMessages :
          DocumentedMessages[i] = DocumentedMessages[j] => i = j
    /\ errCall.called =>
          IF errCall.code \in SDLOG_SUCCESS..SDLOG_EOF
          THEN errCall.result = DocumentedMessages[errCall.code + 1]
          ELSE errCall.result = DocumentedMessages[SDLOG_FAILURE + 1]

(***************************************************************************)
(* Direct calls of sdlog_message_column_format_init, with type codes of   *)
(* every wire size and codes that are no type.                             *)
(***************************************************************************)
ColumnInitTypes == ImplementedTypes \cup {"a", "@", "?", "x", "-"}

ColumnInitNames == {<<>>, <<"l", "a", "t">>, Alphabet(MaxEncColumns)}

ColumnInit ==
    /\ ~columnCall.called
    /\ columnCall' =
          [called |-> TRUE, name |-> columnCall.name, type |-> columnCall.type,
           unit |-> columnCall.unit, alloc |-> columnCall.alloc,
           result |-> sdlog_message_column_format_init(
                          columnCall.name, columnCall.type, columnCall.unit,
                          columnCall.alloc)]
    /\ UNCHANGED <<writerVars, encCall, formatVars, streamVars, errCall>>

InitColumn ==
    /\ InitializedWriter
    /\ encCall = NoEncCall
    /\ NoFormatObject
    /\ ostream = sdlog_ostream_init_buffer
    /\ wrote = <<>>
    /\ istream = sdlog_istream_init_buffer(<<>>)
    /\ delivered = <<>>
    /\ ioCall = NoStreamCall
    /\ fp = fopen(<<>>)
    /\ loop = NoWriteAll
    /\ errCall = NoErrCall
    /\ \E name \in ColumnInitNames : \E type \in ColumnInitTypes :
          \E unit \in {"-", "m"} : \E alloc \in BOOLEAN :
             columnCall = [called |-> FALSE, name |-> name, type |-> type,
                           unit |-> unit, alloc |-> alloc]

NextColumn == ColumnInit

SpecColumn == InitColumn /\ [][NextColumn]_vars

(***************************************************************************)
(* C33.  sdlog_message_column_format_init fails, without a copy of the    *)
(* name allocated, when the wire size of the type code is 0; when it      *)
(* succeeds the column owns a copy of the name, and its type code has a   *)
(* nonzero wire size.                                                      *)
(***************************************************************************)
C33_ColumnInitValidatesType ==
    columnCall.called =>
        /\ get_size_of_column_type(columnCall.type) = 0 =>
              columnCall.result.ret # SDLOG_SUCCESS
        /\ columnCall.result.ret = SDLOG_SUCCESS =>
              /\ columnCall.alloc
              /\ columnCall.result.column.name = columnCall.name
              /\ columnCall.result.column.type = columnCall.type
              /\ columnCall.result.column.unit = columnCall.unit
              /\ sdlog_message_column_format_get_size(columnCall.result.column) > 0

(***************************************************************************)
(* The writer with formats that sdlog_message_format_add_column accepts   *)
(* and whose descriptions or records are longer than the fields and the   *)
(* buffer that hold them: wide_format has 17 columns of one byte with     *)
(* names of four letters, a record of huge_format has 3 + 5 * 64 bytes.   *)
(***************************************************************************)
WideHeap ==
    [p \in FormatPtrs \cup {"wide_format", "huge_format"} |->
        CASE p = "wide_format" ->
                [id |-> 1, type |-> <<"W", "I", "D", "E">>,
                 columns |-> [i \in 1..17 |->
                                 Column(<<LowerCase[i], "c", "o", "l">>, "b")]]
          [] p = "huge_format" ->
                [id |-> 2, type |-> <<"H", "U", "G", "E">>,
                 columns |-> [i \in 1..5 |-> Column(<<LowerCase[i]>>, "Z")]]
          [] OTHER -> Heap[p]]

\* The formats written in these behaviours, with their values.
WidePtrs == {"int_format", "wide_format", "huge_format"}

WideArgs(p) ==
    CASE p = "wide_format" -> {[i \in 1..17 |-> i]}
      [] p = "huge_format" -> {[i \in 1..5 |-> Alphabet(60 + i)]}
      [] OTHER -> WriteArgs(p)

\* sdlog_writer_write of a record longer than writer->buf, after which the
\* bytes beyond the block are read back clobbered.
WriteOverrun(format, args) ==
    /\ CanCall
    /\ sdlog_message_format_get_size(objects[format]) + 3 > SDLOG_MAX_MESSAGE_LENGTH
    /\ \E r \in {sdlog_writer_write_va(
                    Current, format, args, [NoFault EXCEPT !.overrun = "clobbered"])} :
          Returns("write", format, args, <<>>, 0, r)
    /\ UNCHANGED <<destroyed, faults>>

\* sdlog_message_format_encode into a buffer of the caller that is large
\* enough, followed by sdlog_writer_write_encoded with the length the
\* encoder reported (zero = FALSE) or with length 0.
EncodeAndWriteEncoded(format, args, zero) ==
    \E e \in {sdlog_message_format_encode_va(objects[format], args)} :
        /\ e.ret = SDLOG_SUCCESS
        /\ WriteEncoded(format, e.buf, IF zero THEN 0 ELSE e.written, NoFault)

InitWide ==
    /\ has_session = FALSE
    /\ formats = [i \in Ids |-> NULL]
    /\ fmt_message_format = fmt_format
    /\ objects = WideHeap
    /\ blocks = sdlog_writer_init(
                    [CallerHeap EXCEPT !.live["caller_format"] = @ + 2 + 17 + 5],
                    Garbage, NoAllocFault).heap
    /\ initCall = [called |-> TRUE, ret |-> SDLOG_SUCCESS]
    /\ destroyed = FALSE
    /\ streamBytes = <<>>
    /\ faults = 0
    /\ trace = <<>>
    /\ calls = <<>>
    /\ encCall = NoEncCall
    /\ NoFormatObject
    /\ NoStreamCalls

NextWide ==
    \/ \E p \in WidePtrs : \E args \in WideArgs(p) : Write(p, args, NoFault)
    \/ \E p \in WidePtrs : \E args \in WideArgs(p) : WriteOverrun(p, args)
    \/ \E p \in WidePtrs : \E args \in WideArgs(p) : \E zero \in BOOLEAN :
          EncodeAndWriteEncoded(p, args, zero)
    \/ End(NoFault)
    \/ Destroy(NoFault)

SpecWide == InitWide /\ [][NextWide]_vars

(***************************************************************************)
(* C34.  In any state of the writer, for any format without 'a' columns   *)
(* and any values, sdlog_writer_write leaves the stream bytes and the     *)
(* writer (has_session, formats) as sdlog_message_format_encode followed  *)
(* by sdlog_writer_write_encoded with the encoded bytes and their number  *)
(* does, and as the same with a length of 0 does.                          *)
(***************************************************************************)
\* What a call on the writer leaves behind that the caller can observe.
Outcome(r) ==
    [ret |-> r.ret, bytes |-> r.st.bytes, has_session |-> r.st.has_session,
     formats |-> r.st.formats]

\* The writer as it was before call i.
Before(i) ==
    [has_session |-> calls[i].session0, formats |-> calls[i].formats0,
     fmt_message_format |-> calls[i].fmt0, objects |-> calls[i].objects0,
     heap |-> calls[i].heap0, bytes |-> SubSeq(streamBytes, 1, calls[i].bytes0),
     log |-> SubSeq(trace, 1, calls[i].trace0), nwrites |-> 0]

\* What call i left behind.
After(i) ==
    [ret |-> calls[i].ret, bytes |-> SubSeq(streamBytes, 1, calls[i].bytes1),
     has_session |-> calls[i].session1, formats |-> calls[i].formats1]

\* Call i, an sdlog_writer_write, left what encode followed by write_encoded
\* leaves, with the length the encoder reports and with length 0.
WriteMatchesEncoded(i) ==
    LET p == calls[i].format
        e == sdlog_message_format_encode_va(calls[i].objects0[p], calls[i].args)
    IN  /\ e.ret = SDLOG_SUCCESS
        /\ After(i) = Outcome(sdlog_writer_write_encoded(
                                  Before(i), p, e.buf, e.written, NoFault))
        /\ After(i) = Outcome(sdlog_writer_write_encoded(
                                  Before(i), p, e.buf, 0, NoFault))

C34_WriteEqualsEncodeThenWriteEncoded ==
    \A i \in DOMAIN calls :
        (calls[i].op = "write" /\ calls[i].ret = SDLOG_SUCCESS
            /\ \A k \in DOMAIN objects[calls[i].format].columns :
                  objects[calls[i].format].columns[k].type # "a")
        => WriteMatchesEncoded(i)

(***************************************************************************)
(* sdlog_ostream_write_all, one iteration of its loop at a time.  loop is *)
(* [pc, kind, length0, length, n, ret]: where the call stands, the kind   *)
(* of stream it writes to, the length it was called with, the length      *)
(* that remains, the number of write calls made (counted up to            *)
(* MaxLoopLength) and the result.  A stream of kind "progress" fails or   *)
(* takes at least one byte in every write call; one of kind "stall"       *)
(* returns SDLOG_SUCCESS with 0 bytes written every time.                  *)
(***************************************************************************)
\* The largest length sdlog_ostream_write_all is called with.
MaxLoopLength == 10

\* What the write method of a stream of the given kind may answer when it
\* is offered length bytes.
StreamAnswers(kind, length) ==
    IF kind = "stall" THEN {[ret |-> SDLOG_SUCCESS, written |-> 0]}
    ELSE {[ret |-> SDLOG_SUCCESS, written |-> k] : k \in 1..(length + 1)}
         \cup {[ret |-> e, written |-> 0] : e \in {SDLOG_EWRITE, SDLOG_EIO}}

\* Variant: the loop does not advance after a write.
WriteAllIteration_NotAdvancing(length, w) ==
    IF w.ret # SDLOG_SUCCESS THEN [done |-> TRUE, ret |-> w.ret, length |-> length]
    ELSE IF w.written <= length
    THEN [done |-> FALSE, ret |-> SDLOG_SUCCESS, length |-> length]
    ELSE [done |-> TRUE, ret |-> SDLOG_EWRITE, length |-> length]

\* The body of the while loop, entered with length > 0, when the write
\* call answered w.
WriteAllIteration(length, w) ==
    IF w.ret # SDLOG_SUCCESS THEN [done |-> TRUE, ret |-> w.ret, length |-> length]
    ELSE IF w.written <= length
    THEN [done |-> FALSE, ret |-> SDLOG_SUCCESS, length |-> length - w.written]
    ELSE [done |-> TRUE, ret |-> SDLOG_EWRITE, length |-> length]

loopRest == <<writerVars, encCall, formatVars, ostream, wrote, istream, delivered,
              ioCall, fp, errCall, columnCall>>

\* sdlog_ostream_write_all(&stream, data, length) is called.
WriteAllCall(length, kind) ==
    /\ loop.pc = "idle"
    /\ loop' = [pc |-> "loop", kind |-> kind, length0 |-> length,
                length |-> length, n |-> 0, ret |-> SDLOG_SUCCESS]
    /\ UNCHANGED loopRest

\* The test of the while loop fails: the function returns SDLOG_SUCCESS.
WriteAllExit ==
    /\ loop.pc = "loop"
    /\ ~(loop.length > 0)
    /\ loop' = [loop EXCEPT !.pc = "returned", !.ret = SDLOG_SUCCESS]
    /\ UNCHANGED loopRest

\* One iteration of the while loop.
WriteAllStep ==
    /\ loop.pc = "loop"
    /\ loop.length > 0
    /\ \E w \in StreamAnswers(loop.kind, loop.length) :
          \E r \in {WriteAllIteration(loop.length, w)} :
             loop' = [loop EXCEPT !.pc = IF r.done THEN "returned" ELSE "loop",
                                  !.ret = r.ret,
                                  !.length = r.length,
                                  !.n = Min(@ + 1, MaxLoopLength)]
    /\ UNCHANGED loopRest

InitLoop ==
    /\ InitializedWriter
    /\ encCall = NoEncCall
    /\ NoFormatObject
    /\ NoStreamCalls

NextLoop ==
    \/ \E length \in 0..MaxLoopLength : \E kind \in {"progress", "stall"} :
          WriteAllCall(length, kind)
    \/ WriteAllExit
    \/ WriteAllStep

\* The function runs: an iteration that can be made is made.
SpecLoop ==
    InitLoop /\ [][NextLoop]_vars /\ WF_vars(WriteAllStep) /\ WF_vars(WriteAllExit)

(***************************************************************************)
(* C35.  sdlog_ostream_write_all returns for every stream whose write     *)
(* calls each fail or take at least one byte, and the remaining length    *)
(* decreases with every write call that succeeds; on a stream that keeps  *)
(* returning SDLOG_SUCCESS with 0 bytes written it never returns.          *)
(***************************************************************************)
C35_WriteAllTerminates ==
    /\ (loop.pc = "loop" /\ loop.kind = "progress") ~> (loop.pc = "returned")
    /\ [][(loop.pc = "loop" /\ loop.kind = "progress" /\ loop'.pc = "loop")
             => loop'.length < loop.length]_vars
    /\ [](loop.pc = "returned" =>
             /\ loop.kind = "stall" => loop.length0 = 0
             /\ loop.ret = SDLOG_SUCCESS => loop.length = 0)

\* Ten bytes written to a progressing stream in more than two write calls.
C35_Witness ==
    /\ loop.pc = "returned"
    /\ loop.kind = "progress"
    /\ loop.ret = SDLOG_SUCCESS
    /\ loop.length0 = MaxLoopLength
    /\ loop.n > 2

(***************************************************************************)
(* sdlog_ostream_write called directly, on a stream whose methods may     *)
(* lack write and with a bytes_written pointer that may be NULL.  The     *)
(* result holds the return code, whether *bytes_written was stored and    *)
(* with what, and the calls the write method received: the length and     *)
(* whether the count pointer it was handed was NULL.                       *)
(***************************************************************************)
\* The call the write method receives.
MethodCall(length, count_null) == [length |-> length, count_null |-> count_null]

\* Variant: the write method is called for an empty write as well, with the
\* caller's count pointer.
OStreamWrite_AlwaysCallingMethod(has_write, data, bytes_written_null, answer) ==
    IF has_write
    THEN [ret |-> answer.ret,
          stored |-> ~bytes_written_null,
          written |-> IF bytes_written_null THEN 0
                      ELSE IF answer.over THEN Len(data) + 1
                      ELSE Min(answer.k, Len(data)),
          method |-> <<MethodCall(Len(data), bytes_written_null)>>]
    ELSE [ret |-> SDLOG_UNIMPLEMENTED, stored |-> FALSE, written |-> 0,
          method |-> <<>>]

\* sdlog_ostream_write(stream, data, Len(data), bytes_written), where the
\* write method, if it is called, answers as answer tells.
OStreamWrite(has_write, data, bytes_written_null, answer) ==
    IF Len(data) = 0
    THEN [ret |-> SDLOG_SUCCESS, stored |-> ~bytes_written_null, written |-> 0,
          method |-> <<>>]
    ELSE IF has_write
    THEN [ret |-> answer.ret,
          stored |-> ~bytes_written_null,
          written |-> IF bytes_written_null THEN 0
                      ELSE IF answer.over THEN Len(data) + 1
                      ELSE Min(answer.k, Len(data)),
          method |-> <<MethodCall(Len(data), FALSE)>>]
    ELSE [ret |-> SDLOG_UNIMPLEMENTED, stored |-> FALSE, written |-> 0,
          method |-> <<>>]

OStreamWriteCall(has_write, data, bytes_written_null, answer) ==
    /\ CanCallStream
    /\ \E r \in {OStreamWrite(has_write, data, bytes_written_null, answer)} :
          /\ Len(data) > 0 /\ has_write => Len(r.method) = 1
          /\ ioCall' = [op |-> "ostream_write", n |-> ioCall.n + 1,
                        has_write |-> has_write, length |-> Len(data),
                        bytes_written_null |-> bytes_written_null,
                        ret |-> r.ret, stored |-> r.stored, written |-> r.written,
                        method |-> r.method]
    /\ UNCHANGED <<writerVars, encCall, formatVars, ostream, wrote, istream, delivered,
                   fp, loop, errCall, columnCall>>

InitWrite ==
    /\ InitializedWriter
    /\ encCall = NoEncCall
    /\ NoFormatObject
    /\ NoStreamCalls

NextWrite ==
    \E has_write \in BOOLEAN : \E data \in WriteInputs :
       \E bytes_written_null \in BOOLEAN : \E answer \in Answers :
          OStreamWriteCall(has_write, data, bytes_written_null, answer)

SpecWrite == InitWrite /\ [][NextWrite]_vars

(***************************************************************************)
(* C36.  sdlog_ostream_write with length 0 returns SDLOG_SUCCESS, stores  *)
(* 0 in *bytes_written when the pointer is not NULL and does not call the *)
(* write method, so that the method is only ever called with a positive   *)
(* length and a count pointer that is not NULL; with length > 0 on a      *)
(* stream without a write method it returns SDLOG_UNIMPLEMENTED.           *)
(***************************************************************************)
C36_EmptyWriteSkipsMethod ==
    ioCall.op = "ostream_write" =>
        /\ ioCall.length = 0 =>
              /\ ioCall.ret = SDLOG_SUCCESS
              /\ ~ioCall.bytes_written_null => ioCall.stored /\ ioCall.written = 0
              /\ ioCall.method = <<>>
        /\ \A i \in DOMAIN ioCall.method :
              ioCall.method[i].length > 0 /\ ~ioCall.method[i].count_null
        /\ ioCall.length > 0 /\ ~ioCall.has_write =>
              ioCall.ret = SDLOG_UNIMPLEMENTED /\ ioCall.method = <<>>

\* The second call is an empty write with a count pointer on a stream that
\* has a write method.
C36_Witness ==
    /\ ioCall.op = "ostream_write"
    /\ ioCall.n = 2
    /\ ioCall.length = 0
    /\ ioCall.has_write
    /\ ~ioCall.bytes_written_null
    /\ ioCall.stored
    /\ ioCall.method = <<>>

(***************************************************************************)
(* C37.  The FMT record the writer emits for a format holds, padded with  *)
(* zeros, the first min(n, 16) column type codes in the 16 bytes of its   *)
(* Format field and the first min(len, 64) bytes of the comma-joined      *)
(* column names in the 64 bytes of its Columns field; a format with more  *)
(* than 16 columns or with joined names of more than 64 bytes is          *)
(* announced with these fields cut, and its write reports no error.       *)
(***************************************************************************)
\* The first min(Len(s), w) characters of s, followed by zeros up to w bytes.
CutOrPadded(s, w) == [i \in 1..w |-> IF i <= Min(Len(s), w) THEN Bytes(s)[i] ELSE 0]

\* The bytes from..to of the FMT record that call i put on the stream.
FmtBytes(i, from, to) ==
    SubSeq(streamBytes, calls[i].bytes0 + from, calls[i].bytes0 + to)

\* Call i wrote a format that was not recorded as announced.
Announces(i) ==
    /\ calls[i].op \in {"write", "write_encoded"}
    /\ ~calls[i].announced0

C37_FmtFieldsTruncated ==
    \A i \in DOMAIN calls :
        Announces(i) =>
            LET format == calls[i].objects0[calls[i].format] IN
            /\ calls[i].ret = SDLOG_SUCCESS
            /\ calls[i].bytes1 >= calls[i].bytes0 + 89
            /\ FmtBytes(i, 1, 4) = <<163, 149, SDLOG_ID_FMT, format.id>>
            /\ FmtBytes(i, 10, 25) =
                  CutOrPadded(sdlog_message_format_get_format_string(format), 16)
            /\ FmtBytes(i, 26, 89) =
                  CutOrPadded(sdlog_message_format_get_column_names(format, <<",">>), 64)

\* The format of 17 columns, with 84 bytes of joined names, was announced:
\* both fields of its FMT record are full, and a format with one column was
\* announced with padded fields.
C37_Witness ==
    /\ \E i \in DOMAIN calls :
          /\ Announces(i)
          /\ calls[i].format = "wide_format"
          /\ calls[i].ret = SDLOG_SUCCESS
          /\ Len(calls[i].objects0["wide_format"].columns) = 17
          /\ Len(sdlog_message_format_get_column_names(
                     calls[i].objects0["wide_format"], <<",">>)) = 84
          /\ FmtBytes(i, 25, 25) # <<0>>
          /\ FmtBytes(i, 89, 89) # <<0>>
    /\ \E i \in DOMAIN calls :
          /\ Announces(i)
          /\ calls[i].format = "int_format"
          /\ FmtBytes(i, 25, 25) = <<0>>
          /\ FmtBytes(i, 89, 89) = <<0>>

(***************************************************************************)
(* C38.  When sdlog_writer_write fails in the encoder after the FMT       *)
(* record of a format not yet announced was written, the FMT record stays *)
(* on the stream, no byte of the data record follows it, the format is    *)
(* recorded as announced, and a later write of the same format object     *)
(* emits no second FMT record.                                             *)
(***************************************************************************)
\* What the writer asked of its collaborators during call i.
EventsOf(i) == SubSeq(trace, calls[i].trace0 + 1, calls[i].trace1)

\* Call i is a write that announced its format and then failed in the
\* encoder, every step before having succeeded.
FailsEncodingAfterFmt(i) ==
    /\ calls[i].op = "write"
    /\ ~calls[i].announced0
    /\ calls[i].ret # SDLOG_SUCCESS
    /\ LET ev == EventsOf(i) IN
       /\ Len(ev) > 0
       /\ ev[Len(ev)].op = "encode"
       /\ ev[Len(ev)].ret = calls[i].ret
       /\ \A k \in 1..(Len(ev) - 1) : ev[k].ret = SDLOG_SUCCESS

\* The format object of call i stayed recorded from call i to call j.
StaysRecorded(i, j) ==
    \A k \in i..(j - 1) :
        calls[k].formats1[calls[i].objects0[calls[i].format].id] = calls[i].format

C38_FmtKeptAfterEncodingFailure ==
    \A i \in DOMAIN calls :
        FailsEncodingAfterFmt(i) =>
            LET format == calls[i].objects0[calls[i].format] IN
            /\ calls[i].ret = SDLOG_UNIMPLEMENTED
            /\ SubSeq(streamBytes, calls[i].bytes0 + 1, calls[i].bytes1)
                  = FmtRecord(format)
            /\ Len(streamBytes) >= calls[i].bytes1
            /\ calls[i].formats1[format.id] = calls[i].format
            /\ \A j \in DOMAIN calls :
                  (j > i /\ calls[j].op = "write"
                         /\ calls[j].format = calls[i].format
                         /\ StaysRecorded(i, j)) =>
                     /\ calls[j].announced0
                     /\ calls[j].bytes1 = calls[j].bytes0
                     /\ \A k \in DOMAIN EventsOf(j) :
                           EventsOf(j)[k].op
                              \notin {"get_format_string", "get_column_names", "write"}

\* The format with an 'a' column was written three times in a row: the
\* first write put its FMT record on the stream and failed, the other two
\* put nothing on it.
C38_Witness ==
    /\ Len(calls) = 3
    /\ \A i \in 1..3 :
          /\ calls[i].op = "write"
          /\ calls[i].format = "array_format"
          /\ calls[i].ret = SDLOG_UNIMPLEMENTED
    /\ FailsEncodingAfterFmt(1)
    /\ streamBytes = FmtRecord(Heap["array_format"])

(***************************************************************************)
(* C39.  If begin_session of the stream fails during a write, the write   *)
(* returns that error with has_session still false, with the table of     *)
(* announced formats unchanged and with no byte sent to the stream; the   *)
(* next write calls begin_session again before it emits anything.         *)
(***************************************************************************)
\* Call i is a write in which begin_session failed.
BeginFails(i) ==
    /\ IsWrite(calls[i])
    /\ Len(EventsOf(i)) > 0
    /\ EventsOf(i)[1].op = "begin_session"
    /\ EventsOf(i)[1].ret # SDLOG_SUCCESS

\* Call j is the first write after call i.
NextWriteAfter(i, j) ==
    /\ j > i
    /\ IsWrite(calls[j])
    /\ \A k \in (i + 1)..(j - 1) : ~IsWrite(calls[k])

C39_BeginFailureLeavesWriterUntouched ==
    \A i \in DOMAIN calls :
        BeginFails(i) =>
            /\ calls[i].ret = EventsOf(i)[1].ret
            /\ Len(EventsOf(i)) = 1
            /\ ~calls[i].session0
            /\ ~calls[i].session1
            /\ calls[i].formats1 = calls[i].formats0
            /\ calls[i].bytes1 = calls[i].bytes0
            /\ \A j \in DOMAIN calls :
                  NextWriteAfter(i, j) =>
                     /\ ~calls[j].session0
                     /\ Len(EventsOf(j)) > 0
                     /\ EventsOf(j)[1].op = "begin_session"
                     /\ calls[j].bytes0 = calls[i].bytes0

\* The first write failed in begin_session with SDLOG_EIO; the second,
\* of the same format, began the session and put the FMT record and the
\* data record on the stream.
C39_Witness ==
    /\ Len(calls) >= 2
    /\ BeginFails(1)
    /\ calls[1].ret = SDLOG_EIO
    /\ calls[1].format = "int_format"
    /\ calls[2].op = "write"
    /\ calls[2].format = "int_format"
    /\ calls[2].ret = SDLOG_SUCCESS
    /\ EventsOf(2)[1] = Event("begin_session", SDLOG_SUCCESS, 0)
    /\ calls[2].session1
    /\ calls[2].bytes0 = 0
    /\ calls[2].bytes1 > 89

====
